---- MODULE Spec2Model ----
(***************************************************************************)
(* Outreach orchestration of the sales-pipeline API: the OutreachService   *)
(* (src/src/services/outreach.js), the adapters it loads                   *)
(* (./InstantlyService, ./salesfinity, ./linkedin), the Outreach schema    *)
(* and the document store, as a state machine.                             *)
(*                                                                         *)
(* Strings that are only compared are TLA+ strings; strings whose text is  *)
(* searched, substituted or measured are sequences of one-character        *)
(* strings.  A JavaScript undefined/null is None.                          *)
(***************************************************************************)
EXTENDS Integers, Sequences, FiniteSets, TLC

VARIABLES
    outreaches,                 \* the Outreach collection: a sequence, the index is the _id
    instantlyServices,          \* OutreachService.instantlyServices.get(user): None or an adapter
    salesfinityServices,        \* OutreachService.salesfinityServices.get(user)
    linkedinServices,           \* OutreachService.linkedinServices.get(user)
    defaultInstantlyService,    \* OutreachService.defaultInstantlyService: None or an adapter
    defaultSalesfinityService,  \* OutreachService.defaultSalesfinityService
    defaultLinkedInService,     \* OutreachService.defaultLinkedInService
    integrations,               \* user.integrations of the stored user document
    remoteCampaigns,            \* the campaigns held by the email provider, in listing order
    linkedinOutput,             \* the provider's output of the launched automation container
    salesfinityCall,            \* the call provider's record of the call
    followUpRequests,           \* the createFollowUp requests in flight, by connection
    campaigns,                  \* the leads, team and metrics of the stored campaigns
    instantlyCalls,             \* the calls in flight on one InstantlyService, by connection
    last                        \* outcome of the last operation: op, error, returned _id, calls made

vars == <<outreaches, instantlyServices, salesfinityServices, linkedinServices,
          defaultInstantlyService, defaultSalesfinityService, defaultLinkedInService,
          integrations, remoteCampaigns, linkedinOutput, salesfinityCall,
          followUpRequests, campaigns, instantlyCalls, last>>

None == "none"
\* an undefined/null value of a text-valued (sequence) field
NoText == <<None>>
\* a test that takes only undefined/null for absent
FalsyNullOnly(t) == t = NoText

\* JavaScript falsiness of a text value: undefined, null and ""
Falsy(t) == t = NoText \/ t = <<>>

\* ------------------------------------------------------------------ bounds

\* capacity of the Outreach collection in the model
MaxOutreach == 2

\* ------------------------------------------------------------------ text

Rep(c, n) == [i \in 1..n |-> c]

\* String.prototype.indexOf: 1-based position of the first occurrence, 0 if none
IndexOf(s, pat) ==
    LET hits == {i \in 1..(Len(s) - Len(pat) + 1) : SubSeq(s, i, i + Len(pat) - 1) = pat}
    IN  IF hits = {} THEN 0 ELSE CHOOSE i \in hits : \A j \in hits : i <= j

\* String.prototype.includes
Includes(s, pat) == IndexOf(s, pat) # 0

\* String.prototype.replace(pattern: string, replacement: string): the first
\* occurrence only (the replacement texts of the model hold no "$")
Replace(s, pat, rep) ==
    LET i == IndexOf(s, pat)
    IN  IF i = 0 THEN s
        ELSE SubSeq(s, 1, i - 1) \o rep \o SubSeq(s, i + Len(pat), Len(s))

\* String.prototype.substring(0, n)
Substring0(s, n) == SubSeq(s, 1, IF Len(s) < n THEN Len(s) ELSE n)

PhFirstName == <<"{","{","f","i","r","s","t","N","a","m","e","}","}">>
PhLastName  == <<"{","{","l","a","s","t","N","a","m","e","}","}">>
PhCompany   == <<"{","{","c","o","m","p","a","n","y","}","}">>
PhPosition  == <<"{","{","p","o","s","i","t","i","o","n","}","}">>
NoCompany   == <<"[","c","o","m","p","a","n","y","]">>
NoPosition  == <<"[","p","o","s","i","t","i","o","n","]">>
ProfilePath == <<"l","i","n","k","e","d","i","n",".","c","o","m","/","i","n","/">>

\* ------------------------------------------------------------------ stored documents

UserId == "u1"

\* the Lead collection (leadSchema: firstName, lastName, email required)
Leads ==
    [L1 |-> [firstName |-> <<"J","o">>, lastName |-> <<"R","a","y">>,
             company |-> <<"A","c","m","e">>, jobTitle |-> NoText, phone |-> "+15550100",
             email |-> "jo@acme.test",
             linkedinUrl |-> <<"h","t","t","p","s",":","/","/">> \o ProfilePath \o <<"j","o">>],
     L2 |-> [firstName |-> <<"A","l">>, lastName |-> <<"K","i","m">>,
             company |-> NoText, jobTitle |-> NoText, phone |-> None,
             email |-> "al@kim.test", linkedinUrl |-> NoText],
     L3 |-> [firstName |-> <<"E","d">>, lastName |-> <<"L","i">>,
             company |-> NoText, jobTitle |-> <<"C","T","O">>, phone |-> None,
             email |-> "ed@li.test", linkedinUrl |-> <<>>],
     L4 |-> [firstName |-> <<"B","o">>, lastName |-> <<"O","h">>,
             company |-> <<"A","c","m","e">>, jobTitle |-> NoText, phone |-> None,
             email |-> "bo@acme.test",
             linkedinUrl |-> <<"l","i","n","k","e","d","i","n",".","c","o","m","/",
                               "c","o","m","p","a","n","y","/","a","c","m","e">>]]

LeadIds == DOMAIN Leads
\* ids a request may carry: the stored leads and one id that resolves to nothing
LeadRefs == LeadIds \cup {"L0"}

\* the Campaign collection
Campaigns == [C1 |-> [name |-> "Spring", description |-> None]]
CampaignIds == DOMAIN Campaigns
CampaignRefs == CampaignIds \cup {"C0"}

\* Model.findById: <<>> when nothing has the id, else <<document>>
Lead_findById(id) == IF id \in LeadIds THEN <<Leads[id]>> ELSE <<>>
\* a lookup that yields the stored campaign whatever the id
Campaign_findByIdAny(id) == <<Campaigns["C1"]>>
Campaign_findById(id) == IF id \in CampaignIds THEN <<Campaigns[id]>> ELSE <<>>
Outreach_findById(docs, id) == IF id \in DOMAIN docs THEN <<docs[id]>> ELSE <<>>

\* ------------------------------------------------------------------ Outreach schema

TypeEnum == {"Email", "Call", "LinkedIn", "Other"}
ChannelEnum == {"Instantly", "Personal Email", "Salesfinity", "LinkedIn", "Other"}
StatusEnum == {"Scheduled", "Sent", "Delivered", "Opened", "Clicked", "Replied",
               "Bounced", "Failed", "Completed"}
OutcomeEnum == {"Answered", "Voicemail", "No Answer", "Busy", "Wrong Number",
                "Not Interested", "Interested", "Meeting Scheduled"}
MessageTypeEnum == {"Connection Request", "Direct Message", "InMail", "Comment",
                    "Post Engagement"}
ConnectionStatusEnum == {"Pending", "Accepted", "Ignored", "N/A"}
SentimentEnum == {"Positive", "Neutral", "Negative", "N/A"}

\* the nested paths of the schema
NestedPaths == {"email", "call", "linkedin", "response", "externalIds"}

\* a document with every schema path, unset paths None, schema defaults applied
OutreachDefaults ==
    [lead |-> None, campaign |-> None, sequence |-> None, type |-> None, channel |-> None,
     status |-> "Scheduled", scheduledAt |-> None, sentAt |-> None,
     email |-> [subject |-> None, body |-> None, fromEmail |-> None, fromName |-> None,
                openedAt |-> None, clickedAt |-> None, repliedAt |-> None,
                bounceReason |-> None],
     call |-> [duration |-> None, notes |-> None, recordingUrl |-> None,
               dialedNumber |-> None, outcome |-> None],
     linkedin |-> [messageType |-> None, message |-> NoText, connectionStatus |-> None],
     response |-> [received |-> FALSE, responseText |-> None, responseDate |-> None,
                   sentiment |-> "N/A", nextSteps |-> None],
     followUps |-> <<>>, parentOutreach |-> None, followUpCount |-> 0, notes |-> None,
     externalIds |-> [instantlyId |-> None, salesfinityId |-> None,
                      linkedinActivityId |-> None],
     performedBy |-> None]

\* {...a, ...b} followed by assignment to a schema path: the keys of b win, and the
\* keys the schema does not declare are dropped (strict mode)
Overlay(a, b) == [k \in DOMAIN a |-> IF k \in DOMAIN b THEN b[k] ELSE a[k]]

\* new Outreach(doc): the given paths over the defaults
NewOutreach(doc) ==
    [k \in DOMAIN OutreachDefaults |->
        IF k \notin DOMAIN doc THEN OutreachDefaults[k]
        ELSE IF k \in NestedPaths THEN Overlay(OutreachDefaults[k], doc[k])
        ELSE doc[k]]

\* the validators that run on save(): required paths and enums
Validates(doc) ==
    /\ doc.lead # None
    /\ doc.performedBy # None
    /\ doc.type \in TypeEnum
    /\ doc.channel \in ChannelEnum
    /\ doc.status \in StatusEnum
    /\ doc.call.outcome \in OutcomeEnum \cup {None}
    /\ doc.linkedin.messageType \in MessageTypeEnum \cup {None}
    /\ doc.linkedin.connectionStatus \in ConnectionStatusEnum \cup {None}
    /\ doc.response.sentiment \in SentimentEnum \cup {None}


\* ------------------------------------------------------------------ InstantlyService (./InstantlyService)

\* constructor: this.availableEndpoints; leads and analytics are true, false or null
NewInstantlyService ==
    [apiKeys |-> TRUE, campaigns |-> TRUE, campaignDetails |-> TRUE,
     leads |-> "null", analytics |-> "null"]

\* the methods the class defines
InstantlyMethods ==
    {"testConnection", "getCampaigns", "getCampaign", "addLeadsToCampaign", "getLeads",
     "startCampaign", "pauseCampaign", "createCampaign", "getCampaignAnalytics",
     "getApiTierInfo"}

\* a request issued to the provider, with the leads it submits
Req(r) == [req |-> r, leads |-> <<>>]
ReqLeads(r, leads) == [req |-> r, leads |-> leads]

\* Every adapter method below takes the adapter state svc and the provider's answer to
\* each request it may issue, and yields [svc, ok, val, http]: the adapter state after,
\* whether it returned (TRUE) or threw, the value returned, the requests issued.

\* answers of GET /api-keys: "items" (200 with items), "empty" (200 without), "error"
testConnection(svc, resp) ==
    IF resp = "error"
    THEN [svc |-> [svc EXCEPT !.apiKeys = FALSE], ok |-> TRUE, val |-> FALSE,
          http |-> <<Req("GET /api-keys")>>]
    ELSE [svc |-> svc, ok |-> TRUE, val |-> (resp = "items"),
          http |-> <<Req("GET /api-keys")>>]

\* getCampaigns(limit = 10): params { limit }
CampaignsLimit == 10

\* answers of GET /campaigns: "items" (the listing), "other" (an unexpected body), "error"
getCampaigns(svc, resp, listing) ==
    CASE resp = "items" ->
            [svc |-> [svc EXCEPT !.campaigns = TRUE], ok |-> TRUE,
             val |-> SubSeq(listing, 1, IF Len(listing) < CampaignsLimit THEN Len(listing)
                                        ELSE CampaignsLimit),
             http |-> <<Req("GET /campaigns")>>]
      [] resp = "other" ->
            [svc |-> svc, ok |-> TRUE, val |-> <<>>, http |-> <<Req("GET /campaigns")>>]
      [] OTHER ->
            [svc |-> [svc EXCEPT !.campaigns = FALSE], ok |-> FALSE, val |-> None,
             http |-> <<Req("GET /campaigns")>>]

\* answers of POST /campaigns: "ok" (the created campaign, data), "error"
createCampaign(svc, resp, data) ==
    IF ~svc.campaigns
    THEN [svc |-> svc, ok |-> FALSE, val |-> None, http |-> <<>>]
    ELSE [svc |-> svc, ok |-> (resp = "ok"), val |-> IF resp = "ok" THEN data ELSE None,
          http |-> <<Req("POST /campaigns")>>]

\* answers of POST /campaigns/{id}/leads: "ok", "404", "error"; resp1 answers the
\* first request and resp2 the second one, when there is one
addLeadsToCampaign(svc, leads, resp1, resp2) ==
    IF ~svc.campaignDetails
    THEN [svc |-> svc, ok |-> FALSE, val |-> None, http |-> <<>>]
    ELSE IF svc.leads = "null"
    THEN IF resp1 = "ok"
         THEN IF Len(leads) > 1
              THEN [svc |-> [svc EXCEPT !.leads = IF resp2 = "404" THEN "false" ELSE "true"],
                    ok |-> (resp2 = "ok"),
                    val |-> None,
                    http |-> <<ReqLeads("POST /campaigns/{id}/leads", SubSeq(leads, 1, 1)),
                              ReqLeads("POST /campaigns/{id}/leads", leads)>>]
              ELSE [svc |-> [svc EXCEPT !.leads = "true"], ok |-> TRUE, val |-> None,
                    http |-> <<ReqLeads("POST /campaigns/{id}/leads", SubSeq(leads, 1, 1))>>]
         ELSE [svc |-> IF resp1 = "404" THEN [svc EXCEPT !.leads = "false"] ELSE svc,
               ok |-> FALSE, val |-> None,
               http |-> <<ReqLeads("POST /campaigns/{id}/leads", SubSeq(leads, 1, 1))>>]
    ELSE IF svc.leads = "false"
    THEN [svc |-> svc, ok |-> FALSE, val |-> None, http |-> <<>>]
    ELSE [svc |-> svc, ok |-> (resp1 = "ok"), val |-> None,
          http |-> <<ReqLeads("POST /campaigns/{id}/leads", leads)>>]

\* answers of POST /campaigns/{id}/start: "ok", "error"
startCampaign(svc, resp) ==
    IF ~svc.campaignDetails
    THEN [svc |-> svc, ok |-> FALSE, val |-> None, http |-> <<>>]
    ELSE [svc |-> svc, ok |-> (resp = "ok"), val |-> None,
          http |-> <<Req("POST /campaigns/{id}/start")>>]


\* ------------------------------------------------------------------ LinkedInService (./linkedin)

LinkedInMethods ==
    {"validateConnection", "getAgents", "launchConnectionCampaign",
     "launchMessagingCampaign", "getCampaignResults", "getAgentOutput", "stopAgent",
     "getAgentStatus", "formatProfileUrls", "createConnectionTemplate",
     "createMessageTemplate", "mapLinkedInOutreachToInternal", "determineOutreachStatus"}

\* the character limit of a connection request
ConnectionLimit == 300

\* the four substitutions shared by the two templates
Personalize(message, lead) ==
    Replace(Replace(Replace(Replace(message,
        PhFirstName, lead.firstName),
        PhLastName, lead.lastName),
        PhCompany, IF Falsy(lead.company) THEN NoCompany ELSE lead.company),
        PhPosition, IF Falsy(lead.jobTitle) THEN NoPosition ELSE lead.jobTitle)

\* a template that is personalized and not cut
Untruncated(message, lead) == Personalize(message, lead)

createConnectionTemplate(message, lead) ==
    Substring0(Personalize(message, lead), ConnectionLimit)

createMessageTemplate(message, lead) == Personalize(message, lead)

\* formatProfileUrls(leads), leads given by their ids
formatProfileUrls(leadIds) ==
    LET keep(id) == /\ ~Falsy(Leads[id].linkedinUrl)
                    /\ Includes(Leads[id].linkedinUrl, ProfilePath)
        F[i \in 0..Len(leadIds)] ==
            IF i = 0 THEN <<>>
            ELSE IF keep(leadIds[i])
                 THEN Append(F[i - 1], [profileUrl |-> Leads[leadIds[i]].linkedinUrl,
                                        internalId |-> leadIds[i]])
                 ELSE F[i - 1]
    IN  F[Len(leadIds)]

\* POST /agent/launch, answers "ok" (response.data, with its containerId) or "error"
launchCampaign(resp, data) ==
    [ok |-> (resp = "ok"), val |-> data, http |-> <<Req("POST /agent/launch")>>]

\* GET /containers/{id}/output, answers "ok" (response.data) or "error"
getCampaignResults(resp, data) ==
    [ok |-> (resp = "ok"), val |-> data, http |-> <<Req("GET /containers/{id}/output")>>]

determineOutreachStatus(outreachData) ==
    IF outreachData.replied THEN "Replied"
    ELSE IF outreachData.accepted THEN "Delivered"
    ELSE IF outreachData.sent THEN "Sent"
    ELSE IF outreachData.failed THEN "Failed"
    ELSE "Scheduled"

\* the paths syncOutreachStatus reads of the mapped record: status, sentAt, linkedin, response
mapLinkedInOutreachToInternal(outreachData, leadId, type) ==
    [status |-> determineOutreachStatus(outreachData),
     sentAt |-> outreachData.sentAt,
     linkedin |-> [messageType |-> IF type = None THEN "Connection Request" ELSE type,
                   message |-> IF Falsy(outreachData.message) THEN <<>>
                               ELSE outreachData.message,
                   connectionStatus |-> IF outreachData.connectionStatus = None
                                        THEN "Pending" ELSE outreachData.connectionStatus],
     response |-> [received |-> outreachData.replied,
                   responseText |-> IF outreachData.responseText = None THEN ""
                                    ELSE outreachData.responseText,
                   responseDate |-> outreachData.responseDate,
                   sentiment |-> "N/A"]]

\* ------------------------------------------------------------------ SalesfinityService (./salesfinity)

SalesfinityMethods ==
    {"validateConnection", "getContactLists", "getCallLogs", "getCallDetails",
     "getTeamMembers", "getContactListById", "getAllContactLists", "getAllCallLogs",
     "getContactsFromList", "createContactList", "addContactsToList", "scheduleCall",
     "mapLeadToSalesfinityContact", "mapSalesfinityCallToOutreach", "mapCallStatus",
     "mapCallOutcome", "addContact", "deleteContactList", "reimportContacts"}

\* String.prototype.toLowerCase on the status words of the model
ToLowerCase(w) ==
    CASE w = "Completed" -> "completed"
      [] w = "BUSY" -> "busy"
      [] OTHER -> w

\* call.disposition is <<>> (absent) or <<d>>, d with external_name and name
mapCallStatus(call) ==
    IF call.disposition # <<>>
    THEN IF call.disposition[1].external_name # None THEN call.disposition[1].external_name
         ELSE IF call.disposition[1].name # None THEN call.disposition[1].name
         ELSE "Unknown"
    ELSE IF call.status # None
    THEN LET w == ToLowerCase(call.status)
         IN  CASE w = "completed" -> "Completed"
               [] w = "no-answer" -> "No Answer"
               [] w = "busy" -> "Busy"
               [] w = "failed" -> "Failed"
               [] w = "canceled" -> "Canceled"
               [] w = "not_reached" -> "Not Reached"
               [] w = "machine_detection" -> "Voicemail"
               [] w = "voicemail" -> "Voicemail"
               [] OTHER -> call.status
    ELSE "Unknown"

mapCallOutcome(call) ==
    IF call.disposition = <<>> THEN "Unknown"
    ELSE IF call.disposition[1].external_name # None
         THEN call.disposition[1].external_name
         ELSE "Unknown"

\* the legacy adapter (services/salesfinity of the first integration): outcomeMap
outcomeMap ==
    [answered |-> "Answered", voicemail |-> "Voicemail", no_answer |-> "No Answer",
     busy |-> "Busy", wrong_number |-> "Wrong Number",
     not_interested |-> "Not Interested", interested |-> "Interested",
     meeting_scheduled |-> "Meeting Scheduled"]

\* the legacy adapter's mapCallOutcome(salesfinityOutcome)
mapCallOutcomeLegacy(salesfinityOutcome) ==
    IF salesfinityOutcome \in DOMAIN outcomeMap THEN outcomeMap[salesfinityOutcome]
    ELSE "No Answer"

\* the paths syncOutreachStatus reads of the mapped record: status, sentAt, call;
\* now is Date.now() at the moment of the call
mapSalesfinityCallToOutreach(call, leadId, now) ==
    [status |-> mapCallStatus(call),
     sentAt |-> IF call.updatedAt # None THEN call.updatedAt ELSE now,
     call |-> [to |-> IF call.to = None THEN "" ELSE call.to,
               from |-> IF call.from = None THEN "" ELSE call.from,
               notes |-> IF call.transcription = None THEN "" ELSE call.transcription,
               dialedNumber |-> IF call.to = None THEN "" ELSE call.to,
               outcome |-> mapCallOutcome(call),
               recordingUrl |-> IF call.recording_url = None THEN ""
                                ELSE call.recording_url,
               disposition |-> IF call.disposition # <<>>
                                  /\ call.disposition[1].external_name # None
                               THEN call.disposition[1].external_name ELSE "Unknown"]]


\* ------------------------------------------------------------------ OutreachService

\* getService: this.xServices.get(userId) || this.defaultXService; <<>> is undefined
getService(userService, defaultService) ==
    IF userService # <<>> THEN userService ELSE defaultService

\* a record of steps in which the start of the remote campaign and the local save
\* change places
StepStartFirst(name, ok) ==
    [step |-> CASE name = "save" -> "startCampaign"
                [] name = "startCampaign" -> "save"
                [] OTHER -> name,
     ok |-> ok]

\* one step of an operation, for the record of what it did
Step(name, ok) == [step |-> name, ok |-> ok]

\* the outcome of an operation: the error it threw ("" when it returned), the
\* documents it saved, the adapter and the provider after it, the steps and requests
Outcome(error, docs, svc, remote, calls, http) ==
    [error |-> error, docs |-> docs, svc |-> svc, remote |-> remote,
     calls |-> calls, http |-> http]

\* instantlyCampaigns.find(c => c.name === name): the index of the first, 0 if none
FindByName(listing, name) ==
    LET hits == {i \in DOMAIN listing : listing[i].name = name}
    IN  IF hits = {} THEN 0 ELSE CHOOSE i \in hits : \A j \in hits : i <= j

\* the campaign the provider creates on POST /campaigns
CreatedCampaign(remote, name) == [id |-> Len(remote) + 1, name |-> name, status |-> 0]

\* the provider's status of a running campaign, as sendEmail reads it
RunningStatus == 1

\* the provider after POST /campaigns/{id}/start succeeded: the campaign runs
Started(remote, id) ==
    [i \in DOMAIN remote |-> IF remote[i].id = id THEN [remote[i] EXCEPT !.status = RunningStatus]
                             ELSE remote[i]]

\* a document that is marked sent as soon as it is built
EmailOutreachSent(userId, campaignId, leadId, emailData, instantlyCampaignId) ==
    NewOutreach([lead |-> leadId, campaign |-> campaignId, type |-> "Email",
                 channel |-> "Instantly", status |-> "Sent",
                 scheduledAt |-> emailData.scheduledAt,
                 email |-> [subject |-> emailData.subject, body |-> emailData.body,
                            fromName |-> emailData.fromName,
                            fromEmail |-> emailData.fromEmail],
                 externalIds |-> [instantlyCampaignId |-> instantlyCampaignId],
                 performedBy |-> userId])

\* the document sendEmail builds (externalIds.instantlyCampaignId is no schema path
\* and is dropped)
EmailOutreach(userId, campaignId, leadId, emailData, instantlyCampaignId) ==
    NewOutreach([lead |-> leadId, campaign |-> campaignId, type |-> "Email",
                 channel |-> "Instantly", status |-> "Scheduled",
                 scheduledAt |-> emailData.scheduledAt,
                 email |-> [subject |-> emailData.subject, body |-> emailData.body,
                            fromName |-> emailData.fromName,
                            fromEmail |-> emailData.fromEmail],
                 externalIds |-> [instantlyCampaignId |-> instantlyCampaignId],
                 performedBy |-> userId])

\* a rethrowing catch block
Rethrown(ok) == ok

\* try { await step } catch (error) { console.log(...) }: whether the operation goes on
\* after the step, given whether the step returned (ok) or threw
BestEffort(ok) == TRUE

\* sendEmail(userId, campaignId, leadId, emailData); service is what getService gave,
\* remote the provider's campaigns, env the provider's answer to each request
sendEmail(service, remote, userId, campaignId, leadId, emailData, env) ==
    IF service = <<>>
    THEN Outcome("Instantly service not configured", <<>>, service, remote, <<>>, <<>>)
    ELSE
    LET lead == Lead_findById(leadId)
        c1 == <<Step("Lead.findById", lead # <<>>)>>
    IN
    IF lead = <<>> THEN Outcome("Lead not found", <<>>, service, remote, c1, <<>>)
    ELSE
    LET tc == testConnection(service[1], env.conn)
        c2 == Append(c1, Step("testConnection", tc.val))
    IN
    IF ~tc.val
    THEN Outcome("Failed to connect to Instantly API", <<>>, <<tc.svc>>, remote, c2, tc.http)
    ELSE
    LET campaign == Campaign_findById(campaignId)
        c3 == Append(c2, Step("Campaign.findById", campaign # <<>>))
    IN
    IF campaign = <<>>
    THEN Outcome("Campaign not found", <<>>, <<tc.svc>>, remote, c3, tc.http)
    ELSE
    LET gc == getCampaigns(tc.svc, env.list, remote)
        c4 == Append(c3, Step("getCampaigns", gc.ok))
        h4 == tc.http \o gc.http
    IN
    IF ~gc.ok
    THEN Outcome("Failed to fetch campaigns", <<>>, <<gc.svc>>, remote, c4, h4)
    ELSE
    LET m == FindByName(gc.val, campaign[1].name)
        cc == createCampaign(gc.svc, env.create, CreatedCampaign(remote, campaign[1].name))
        c5 == IF m = 0 THEN Append(c4, Step("createCampaign", cc.ok)) ELSE c4
        h5 == IF m = 0 THEN h4 \o cc.http ELSE h4
    IN
    IF m = 0 /\ ~cc.ok
    THEN Outcome("Failed to create campaign", <<>>, <<cc.svc>>, remote, c5, h5)
    ELSE
    LET remote5 == IF m = 0 THEN Append(remote, cc.val) ELSE remote
        instantlyCampaignId == IF m = 0 THEN cc.val.id ELSE gc.val[m].id
        al == addLeadsToCampaign(gc.svc, <<Leads[leadId].email>>, env.add, env.add)
        c6 == Append(c5, Step("addLeadsToCampaign", al.ok))
        h6 == h5 \o al.http
        outreach == EmailOutreach(userId, campaignId, leadId, emailData,
                                  instantlyCampaignId)
        c7 == Append(c6, Step("save", Validates(outreach)))
    IN
    IF ~BestEffort(al.ok)
    THEN Outcome("Failed to add leads", <<>>, <<al.svc>>, remote5, c6, h6)
    ELSE
    IF ~Validates(outreach)
    THEN Outcome("Outreach validation failed", <<>>, <<al.svc>>, remote5, c7, h6)
    ELSE
    IF m # 0 /\ gc.val[m].status # RunningStatus
    THEN LET st == startCampaign(al.svc, env.start)
         IN  Outcome(IF BestEffort(st.ok) THEN "" ELSE "Failed to start campaign",
                     <<outreach>>, <<st.svc>>,
                     IF st.ok THEN Started(remote5, instantlyCampaignId) ELSE remote5,
                     Append(c7, Step("startCampaign", st.ok)), h6 \o st.http)
    ELSE Outcome("", <<outreach>>, <<al.svc>>, remote5, c7, h6)


\* mapLeadToSalesfinityContact(lead)
mapLeadToSalesfinityContact(leadId) ==
    [firstName |-> Leads[leadId].firstName, lastName |-> Leads[leadId].lastName,
     phone |-> IF Leads[leadId].phone = None THEN "" ELSE Leads[leadId].phone,
     email |-> Leads[leadId].email, internalId |-> leadId]

\* the document scheduleCall builds
CallOutreach(userId, campaignId, leadId, callData, salesfinityId) ==
    NewOutreach([lead |-> leadId, campaign |-> campaignId, type |-> "Call",
                 channel |-> "Salesfinity", status |-> "Scheduled",
                 scheduledAt |-> callData.scheduledAt,
                 call |-> [notes |-> IF callData.notes = None THEN "" ELSE callData.notes,
                           dialedNumber |-> IF Leads[leadId].phone = None THEN ""
                                            ELSE Leads[leadId].phone,
                           outcome |-> "No Answer"],
                 externalIds |-> [salesfinityId |-> salesfinityId],
                 performedBy |-> userId])

\* scheduleCall(userId, campaignId, leadId, callData); env.add answers the request of
\* addContactsToCampaign, were the adapter to define it
scheduleCall(service, userId, campaignId, leadId, callData, env) ==
    IF service = <<>>
    THEN Outcome("Salesfinity service not configured for this user", <<>>, service,
                 <<>>, <<>>, <<>>)
    ELSE
    LET lead == Lead_findById(leadId)
        c1 == <<Step("Lead.findById", lead # <<>>)>>
    IN
    IF lead = <<>> THEN Outcome("Lead not found", <<>>, service, <<>>, c1, <<>>)
    ELSE
    LET formattedContact == mapLeadToSalesfinityContact(leadId)
        c2 == Append(c1, Step("mapLeadToSalesfinityContact", TRUE))
    IN
    IF "addContactsToCampaign" \notin SalesfinityMethods
    THEN Outcome("service.addContactsToCampaign is not a function", <<>>, service, <<>>,
                 Append(c2, Step("addContactsToCampaign", FALSE)), <<>>)
    ELSE
    LET c3 == Append(c2, Step("addContactsToCampaign", env.add = "ok"))
        h3 == <<ReqLeads("POST /campaigns/{id}/contacts", <<formattedContact.email>>)>>
    IN
    IF env.add # "ok" THEN Outcome("Error adding contacts", <<>>, service, <<>>, c3, h3)
    ELSE
    LET outreach == CallOutreach(userId, campaignId, leadId, callData, "sim_call")
        c4 == Append(Append(c3, Step("scheduleCall", TRUE)),
                     Step("save", Validates(outreach)))
    IN
    IF ~Validates(outreach)
    THEN Outcome("Outreach validation failed", <<>>, service, <<>>, c4, h3)
    ELSE Outcome("", <<outreach>>, service, <<>>, c4, h3)

\* the document the two LinkedIn operations build
LinkedInOutreach(userId, leadId, messageData, messageType, message, connectionStatus, containerId) ==
    LET doc == NewOutreach([lead |-> leadId, type |-> "LinkedIn", channel |-> "LinkedIn",
                            status |-> "Scheduled", scheduledAt |-> "now",
                            linkedin |-> [messageType |-> messageType,
                                          message |-> message,
                                          connectionStatus |-> connectionStatus],
                            externalIds |-> [linkedinActivityId |-> containerId],
                            performedBy |-> userId])
    IN  IF messageData.campaignId # None
        THEN [doc EXCEPT !.campaign = messageData.campaignId] ELSE doc

\* the part the two LinkedIn operations share: template is the personalized text,
\* launchStep the launch method called
sendLinkedIn(service, userId, leadId, messageData, env, template, launchStep, messageType, connectionStatus, launchError) ==
    IF service = <<>>
    THEN Outcome("LinkedIn service not configured for this user", <<>>, service, <<>>,
                 <<>>, <<>>)
    ELSE
    LET lead == Lead_findById(leadId)
        c1 == <<Step("Lead.findById", lead # <<>>)>>
    IN
    IF lead = <<>> THEN Outcome("Lead not found", <<>>, service, <<>>, c1, <<>>)
    ELSE
    IF Falsy(lead[1].linkedinUrl)
    THEN Outcome("Lead does not have LinkedIn URL", <<>>, service, <<>>, c1, <<>>)
    ELSE
    IF messageData.message = NoText
    THEN Outcome("Cannot read properties of undefined (reading 'replace')", <<>>,
                 service, <<>>, c1, <<>>)
    ELSE
    LET formattedLeads == formatProfileUrls(<<leadId>>)
        result == launchCampaign(env.launch, [containerId |-> "k1"])
        c2 == Append(c1, Step(launchStep, result.ok))
        h2 == <<ReqLeads("POST /agent/launch",
                         [i \in DOMAIN formattedLeads |-> formattedLeads[i].internalId])>>
    IN
    IF ~result.ok THEN Outcome(launchError, <<>>, service, <<>>, c2, h2)
    ELSE
    LET outreach == LinkedInOutreach(userId, leadId, messageData, messageType, template,
                                     connectionStatus, result.val.containerId)
        c3 == Append(c2, Step("save", Validates(outreach)))
    IN
    IF ~Validates(outreach)
    THEN Outcome("Outreach validation failed", <<>>, service, <<>>, c3, h2)
    ELSE Outcome("", <<outreach>>, service, <<>>, c3, h2)

\* sendLinkedInConnection(userId, leadId, messageData)
sendLinkedInConnection(service, userId, leadId, messageData, env) ==
    sendLinkedIn(service, userId, leadId, messageData, env,
                 createConnectionTemplate(messageData.message, Leads[leadId]),
                 "launchConnectionCampaign", "Connection Request", "Pending",
                 "Error launching connection campaign")

\* sendLinkedInMessage(userId, leadId, messageData)
sendLinkedInMessage(service, userId, leadId, messageData, env) ==
    sendLinkedIn(service, userId, leadId, messageData, env,
                 createMessageTemplate(messageData.message, Leads[leadId]),
                 "launchMessagingCampaign", "Direct Message", "Accepted",
                 "Error launching messaging campaign")


\* mapInstantlyStatusToOutreach(instantlyStatus): email holds the keys the provider
\* supplied, response is there when the lead replied
mapInstantlyStatusToOutreach(instantlyStatus) ==
    LET status == CASE instantlyStatus.status = "sent" -> "Sent"
                    [] instantlyStatus.status = "delivered" -> "Delivered"
                    [] instantlyStatus.status = "opened" -> "Opened"
                    [] instantlyStatus.status = "clicked" -> "Clicked"
                    [] instantlyStatus.status = "replied" -> "Replied"
                    [] instantlyStatus.status = "bounced" -> "Bounced"
                    [] instantlyStatus.status = "failed" -> "Failed"
                    [] OTHER -> "Scheduled"
        keys == {k \in {"openedAt", "clickedAt", "repliedAt", "bounceReason"} :
                    instantlyStatus[k] # None}
        email == [k \in keys |-> instantlyStatus[k]]
    IN  IF instantlyStatus.repliedAt # None
        THEN [status |-> status, sentAt |-> instantlyStatus.sentAt, email |-> email,
              response |-> [received |-> TRUE,
                            responseDate |-> instantlyStatus.repliedAt]]
        ELSE [status |-> status, sentAt |-> instantlyStatus.sentAt, email |-> email]

\* what the switch of syncOutreachStatus yields: the error thrown ("" if none),
\* updatedData (<<>> while null), the steps and the requests
Fetched(error, updatedData, calls, http) ==
    [error |-> error, updatedData |-> updatedData, calls |-> calls, http |-> http]

\* results.find(r => r.details?.internalId === outreach.lead.toString())
FindResult(results, leadId) ==
    LET hits == {i \in DOMAIN results : results[i].internalId = leadId}
    IN  IF hits = {} THEN 0 ELSE CHOOSE i \in hits : \A j \in hits : i <= j

\* a switch without the guards
HasExternalIdAlways(outreach, key) == TRUE

\* if (outreach.externalIds.<key>): the guard of each case of the switch
HasExternalId(outreach, key) == outreach.externalIds[key] # None

\* the switch on outreach.channel; services are what getService gives per channel,
\* provider the providers' data, env.fetch the answer to the status request
FetchUpdate(outreach, services, provider, env) ==
    CASE outreach.channel = "Instantly" /\ HasExternalId(outreach, "instantlyId") ->
            IF services.instantly = <<>>
            THEN Fetched("Cannot read properties of undefined (reading 'getLeadStatus')",
                         <<>>, <<Step("getLeadStatus", FALSE)>>, <<>>)
            ELSE IF "getLeadStatus" \notin InstantlyMethods
            THEN Fetched("service.getLeadStatus is not a function", <<>>,
                         <<Step("getLeadStatus", FALSE)>>, <<>>)
            ELSE IF env.fetch # "ok"
            THEN Fetched("Error fetching lead status", <<>>,
                         <<Step("getLeadStatus", FALSE)>>,
                         <<Req("GET /campaigns/{id}/leads/{id}")>>)
            ELSE Fetched("", <<mapInstantlyStatusToOutreach(provider.instantlyLead)>>,
                         <<Step("getLeadStatus", TRUE)>>,
                         <<Req("GET /campaigns/{id}/leads/{id}")>>)
      [] outreach.channel = "Salesfinity" /\ HasExternalId(outreach, "salesfinityId") ->
            IF services.salesfinity = <<>>
            THEN Fetched("Cannot read properties of undefined (reading 'getCall')",
                         <<>>, <<Step("getCall", FALSE)>>, <<>>)
            ELSE IF "getCall" \notin SalesfinityMethods
            THEN Fetched("service.getCall is not a function", <<>>,
                         <<Step("getCall", FALSE)>>, <<>>)
            ELSE IF env.fetch # "ok"
            THEN Fetched("Error fetching call", <<>>, <<Step("getCall", FALSE)>>,
                         <<Req("GET /calls/{id}")>>)
            ELSE Fetched("", <<mapSalesfinityCallToOutreach(provider.call, outreach.lead,
                                                            env.now)>>,
                         <<Step("getCall", TRUE)>>, <<Req("GET /calls/{id}")>>)
      [] outreach.channel = "LinkedIn" /\ HasExternalId(outreach, "linkedinActivityId") ->
            IF services.linkedin = <<>>
            THEN Fetched("Cannot read properties of undefined (reading 'getCampaignResults')",
                         <<>>, <<Step("getCampaignResults", FALSE)>>, <<>>)
            ELSE
            LET results == getCampaignResults(env.fetch, provider.linkedin)
                calls == <<Step("getCampaignResults", results.ok)>>
                i == FindResult(results.val, outreach.lead)
            IN  IF ~results.ok
                THEN Fetched("Error fetching campaign results", <<>>, calls, results.http)
                ELSE IF i = 0 THEN Fetched("", <<>>, calls, results.http)
                ELSE Fetched("", <<mapLinkedInOutreachToInternal(
                                       results.val[i], outreach.lead,
                                       outreach.linkedin.messageType)>>,
                             calls, results.http)
      [] OTHER -> Fetched("", <<>>, <<>>, <<>>)

\* an update that also logs the fetched status on the document
ApplyUpdateLogging(outreach, updatedData) ==
    [outreach EXCEPT !.status = updatedData.status, !.sentAt = updatedData.sentAt,
                     !.followUps = Append(@, updatedData.status)]

\* "Update only the relevant fields"
ApplyUpdate(outreach, updatedData) ==
    LET has(k) == k \in DOMAIN updatedData
    IN  [outreach EXCEPT
            !.status = updatedData.status,
            !.sentAt = updatedData.sentAt,
            !.email = IF has("email") THEN Overlay(@, updatedData.email) ELSE @,
            !.call = IF has("call") THEN Overlay(@, updatedData.call) ELSE @,
            !.linkedin = IF has("linkedin") THEN Overlay(@, updatedData.linkedin) ELSE @,
            !.response = IF has("response") THEN Overlay(@, updatedData.response) ELSE @]

\* syncOutreachStatus(outreachId) on the collection docs: the error thrown, the
\* collection after, the steps and the requests
Synced(error, docs, calls, http) ==
    [error |-> error, docs |-> docs, calls |-> calls, http |-> http]

syncOutreachStatus(docs, services, provider, outreachId, env) ==
    LET found == Outreach_findById(docs, outreachId)
        c1 == <<Step("Outreach.findById", found # <<>>)>>
    IN
    IF found = <<>> THEN Synced("Outreach not found", docs, c1, <<>>)
    ELSE
    LET f == FetchUpdate(found[1], services, provider, env)
        c2 == c1 \o f.calls
    IN
    IF f.error # "" THEN Synced(f.error, docs, c2, f.http)
    ELSE IF f.updatedData = <<>> THEN Synced("", docs, c2, f.http)
    ELSE
    LET outreach == ApplyUpdate(found[1], f.updatedData[1])
        c3 == Append(c2, Step("save", Validates(outreach)))
    IN
    IF ~Validates(outreach) THEN Synced("Outreach validation failed", docs, c3, f.http)
    ELSE Synced("", [docs EXCEPT ![outreachId] = outreach], c3, f.http)

\* initUserServices(user): the adapters it constructs and caches, per channel
\* (<<>>: the cache entry is left as it is)
initUserServices(user) ==
    [instantly |-> IF user.instantly.enabled /\ user.instantly.apiKey
                   THEN <<NewInstantlyService>> ELSE <<>>,
     salesfinity |-> IF user.salesfinity.enabled /\ user.salesfinity.apiKey
                        /\ user.salesfinity.accountId
                     THEN <<[adapter |-> "SalesfinityService"]>> ELSE <<>>,
     linkedin |-> IF user.linkedin.enabled /\ user.linkedin.email
                  THEN <<[adapter |-> "LinkedInService"]>> ELSE <<>>]


\* ------------------------------------------------------------------ requests and provider data

Subjects == {"Intro", "Offer"}
EmailData(subject) ==
    [subject |-> subject, body |-> "body", fromName |-> "Rep", fromEmail |-> "rep@crm.test",
     scheduledAt |-> "now"]

\* the email provider's answers during one sendEmail; an answer that no request of
\* the call can receive is held at its first value
EmailEnvs ==
    {e \in [conn : {"items", "empty", "error"}, list : {"items", "other", "error"},
            create : {"ok", "error"}, add : {"ok", "404", "error"},
            start : {"ok", "error"}] :
        /\ e.conn # "items" => e.list = "items"
        /\ e.list = "error" => (e.create = "ok" /\ e.add = "ok")
        /\ e.list # "items" => e.start = "ok"
        /\ e.create = "error" => e.add = "ok"}

\* the requests of sendEmail that the model issues: a request that fails before it
\* reads the subject carries the first subject
EmailRequests ==
    {r \in [campaignId : CampaignRefs, leadId : {"L0", "L1"}, subject : Subjects,
            env : EmailEnvs] :
        /\ (r.leadId \notin LeadIds \/ r.env.conn # "items" \/ r.campaignId \notin CampaignIds
            \/ r.env.list = "error")
              => (r.subject = "Intro" /\ r.env.create = "ok" /\ r.env.add = "ok"
                  /\ r.env.start = "ok")
        /\ r.leadId \notin LeadIds => (r.env.list = "items" /\ r.campaignId \in CampaignIds)
        /\ r.campaignId \notin CampaignIds => r.env.list = "items"}

ShortMessage == <<"H","i"," ">> \o PhFirstName \o <<" ","a","t"," ">> \o PhCompany
LongMessage == PhFirstName \o Rep("x", ConnectionLimit)
MessageRefs == {NoText, ShortMessage, LongMessage}

\* the output of the automation container: one result per profile
LiResult(leadId, flags, sentAt, connectionStatus, responseText, responseDate) ==
    [internalId |-> leadId, sent |-> "sent" \in flags, accepted |-> "accepted" \in flags,
     replied |-> "replied" \in flags, failed |-> "failed" \in flags, sentAt |-> sentAt,
     message |-> NoText, connectionStatus |-> connectionStatus,
     responseText |-> responseText, responseDate |-> responseDate]

LiOutputs ==
    {<<>>,
     <<LiResult("L1", {"sent"}, "t1", None, None, None)>>,
     <<LiResult("L1", {"sent", "accepted"}, "t1", "Accepted", None, None)>>,
     <<LiResult("L9", {"failed"}, None, None, None, None),
       LiResult("L1", {"sent", "accepted", "replied"}, "t1", "Accepted", "yes", "t2")>>,
     <<LiResult("L1", {"sent"}, "t1", "Connected", None, None)>>}

\* the call provider's record of a call
SfCall(disposition, status, updatedAt) ==
    [disposition |-> disposition, status |-> status, to |-> "+15550100", from |-> None,
     transcription |-> None, recording_url |-> None, updatedAt |-> updatedAt]

\* the record of the seeded call at the provider: its disposition is "interested"
InterestedCall ==
    SfCall(<<[external_name |-> "interested", name |-> "Interested"]>>, None, "t3")

\* the email provider's status of a lead in a campaign
InstantlyLead ==
    [status |-> "opened", sentAt |-> "t1", openedAt |-> "t2", clickedAt |-> None,
     repliedAt |-> None, bounceReason |-> None]

\* documents stored before the service was constructed: a call that carries the
\* provider's id, a call that carries none, an email that carries a provider lead id
SeedOutreaches ==
    {CallOutreach(UserId, "C1", "L1", [scheduledAt |-> "t0", notes |-> None], "call-1"),
     CallOutreach(UserId, "C1", "L2", [scheduledAt |-> "t0", notes |-> None], None),
     [EmailOutreach(UserId, "C1", "L1", EmailData("Intro"), None)
         EXCEPT !.externalIds.instantlyId = "lead-1"]}

RemoteInits ==
    {<<>>,
     <<[id |-> 1, name |-> "Spring", status |-> 0]>>,
     <<[id |-> 1, name |-> "Spring", status |-> RunningStatus]>>}

Integration(on) ==
    [instantly |-> [enabled |-> on, apiKey |-> on],
     salesfinity |-> [enabled |-> on, apiKey |-> on, accountId |-> on],
     linkedin |-> [enabled |-> on, email |-> on]]

\* process.env: the provider keys that are set
EnvKeys == {{}, {"INSTANTLY_API_KEY", "SALESFINITY_API_KEY", "LINKEDIN_API_KEY"}}

\* ------------------------------------------------------------------ state machine

NoInput ==
    [leadId |-> None, campaignId |-> None, outreachId |-> 0, subject |-> None,
     message |-> NoText, fetch |-> None]

\* the record of an operation: its name and inputs, the error it threw ("" if it
\* returned), the _id of the document it returned (0 if none), its steps and requests,
\* and, for a sync, whether it repeats the sync before it and whether it changed the
\* collection
Last(op, input, error, id, calls, http, repeat, changed) ==
    [op |-> op, input |-> input, error |-> error, id |-> id, calls |-> calls,
     http |-> http, repeat |-> repeat, changed |-> changed]

Init ==
    /\ outreaches \in {<<d>> : d \in SeedOutreaches}
    /\ instantlyServices = <<>>
    /\ salesfinityServices = <<>>
    /\ linkedinServices = <<>>
    /\ \E keys \in EnvKeys :
          /\ defaultInstantlyService =
                IF "INSTANTLY_API_KEY" \in keys THEN <<NewInstantlyService>> ELSE <<>>
          /\ defaultSalesfinityService =
                IF "SALESFINITY_API_KEY" \in keys
                THEN <<[adapter |-> "SalesfinityService"]>> ELSE <<>>
          /\ defaultLinkedInService =
                IF "LINKEDIN_API_KEY" \in keys
                THEN <<[adapter |-> "LinkedInService"]>> ELSE <<>>
    /\ integrations \in {Integration(FALSE), Integration(TRUE)}
    /\ remoteCampaigns \in RemoteInits
    /\ linkedinOutput = <<>>
    /\ salesfinityCall = InterestedCall
    /\ followUpRequests = <<>>
    /\ campaigns = <<>>
    /\ instantlyCalls = <<>>
    /\ last = Last("none", NoInput, "", 0, <<>>, <<>>, FALSE, FALSE)

Services ==
    [instantly |-> getService(instantlyServices, defaultInstantlyService),
     salesfinity |-> getService(salesfinityServices, defaultSalesfinityService),
     linkedin |-> getService(linkedinServices, defaultLinkedInService)]

\* the effect of an operation that creates a document
Created(op, input, r) ==
    /\ outreaches' = outreaches \o r.docs
    /\ last' = Last(op, input, r.error, IF r.docs = <<>> THEN 0 ELSE Len(outreaches) + 1,
                    r.calls, r.http, FALSE, r.docs # <<>>)

SendEmail ==
    /\ Len(outreaches) < MaxOutreach
    /\ \E q \in EmailRequests :
          LET r == sendEmail(Services.instantly, remoteCampaigns, UserId, q.campaignId,
                             q.leadId, EmailData(q.subject), q.env)
          IN  /\ Created("sendEmail",
                         [NoInput EXCEPT !.leadId = q.leadId, !.campaignId = q.campaignId,
                                         !.subject = q.subject], r)
              /\ remoteCampaigns' = r.remote
              /\ IF instantlyServices # <<>>
                 THEN instantlyServices' = r.svc /\ UNCHANGED defaultInstantlyService
                 ELSE defaultInstantlyService' = r.svc /\ UNCHANGED instantlyServices
    /\ UNCHANGED <<salesfinityServices, linkedinServices, defaultSalesfinityService,
                   defaultLinkedInService, integrations, linkedinOutput, salesfinityCall, followUpRequests, campaigns,
                instantlyCalls>>

ScheduleCall ==
    /\ Len(outreaches) < MaxOutreach
    /\ \E leadId \in LeadRefs :
          LET r == scheduleCall(Services.salesfinity, UserId, "C1", leadId,
                                [scheduledAt |-> "now", notes |-> None], [add |-> "ok"])
          IN  Created("scheduleCall",
                      [NoInput EXCEPT !.leadId = leadId, !.campaignId = "C1"], r)
    /\ UNCHANGED <<instantlyServices, salesfinityServices, linkedinServices,
                   defaultInstantlyService, defaultSalesfinityService,
                   defaultLinkedInService, integrations, remoteCampaigns, linkedinOutput,
                   salesfinityCall, followUpRequests, campaigns,
                instantlyCalls>>

\* the requests of the two LinkedIn operations that the model issues: a request
\* that fails before it reads the message carries the first message
LinkedInRequests ==
    {r \in [leadId : LeadRefs, message : MessageRefs, campaignId : {"C1"},
            launch : {"ok", "error"}] :
        /\ (r.leadId \notin LeadIds \/ Falsy(Lead_findById(r.leadId)[1].linkedinUrl))
              => (r.message = ShortMessage /\ r.launch = "ok")
        /\ r.message = NoText => r.launch = "ok"}

SendLinkedInConnection ==
    /\ Len(outreaches) < MaxOutreach
    /\ \E q \in LinkedInRequests :
          LET r == sendLinkedInConnection(Services.linkedin, UserId, q.leadId,
                        [message |-> q.message, campaignId |-> q.campaignId],
                        [launch |-> q.launch])
          IN  Created("sendLinkedInConnection",
                      [NoInput EXCEPT !.leadId = q.leadId, !.message = q.message], r)
    /\ UNCHANGED <<instantlyServices, salesfinityServices, linkedinServices,
                   defaultInstantlyService, defaultSalesfinityService,
                   defaultLinkedInService, integrations, remoteCampaigns, linkedinOutput,
                   salesfinityCall, followUpRequests, campaigns,
                instantlyCalls>>

SendLinkedInMessage ==
    /\ Len(outreaches) < MaxOutreach
    /\ \E q \in LinkedInRequests :
          LET r == sendLinkedInMessage(Services.linkedin, UserId, q.leadId,
                        [message |-> q.message, campaignId |-> q.campaignId],
                        [launch |-> q.launch])
          IN  Created("sendLinkedInMessage",
                      [NoInput EXCEPT !.leadId = q.leadId, !.message = q.message], r)
    /\ UNCHANGED <<instantlyServices, salesfinityServices, linkedinServices,
                   defaultInstantlyService, defaultSalesfinityService,
                   defaultLinkedInService, integrations, remoteCampaigns, linkedinOutput,
                   salesfinityCall, followUpRequests, campaigns,
                instantlyCalls>>

SyncOutreachStatus ==
    /\ \E outreachId \in 1..MaxOutreach, fetch \in {"ok", "error"} :
          LET r == syncOutreachStatus(outreaches, Services,
                        [instantlyLead |-> InstantlyLead, call |-> salesfinityCall,
                         linkedin |-> linkedinOutput],
                        outreachId, [fetch |-> fetch, now |-> "now"])
              input == [NoInput EXCEPT !.outreachId = outreachId, !.fetch = fetch]
          IN  /\ outreaches' = r.docs
              /\ last' = Last("syncOutreachStatus", input, r.error,
                              IF r.error = "" THEN outreachId ELSE 0, r.calls, r.http,
                              last.op = "syncOutreachStatus" /\ last.input = input,
                              r.docs # outreaches)
    /\ UNCHANGED <<instantlyServices, salesfinityServices, linkedinServices,
                   defaultInstantlyService, defaultSalesfinityService,
                   defaultLinkedInService, integrations, remoteCampaigns, linkedinOutput,
                   salesfinityCall, followUpRequests, campaigns,
                instantlyCalls>>

InitUserServices ==
    LET made == initUserServices(integrations)
    IN  /\ instantlyServices' =
              IF made.instantly # <<>> THEN made.instantly ELSE instantlyServices
        /\ salesfinityServices' =
              IF made.salesfinity # <<>> THEN made.salesfinity ELSE salesfinityServices
        /\ linkedinServices' =
              IF made.linkedin # <<>> THEN made.linkedin ELSE linkedinServices
        /\ last' = Last("initUserServices", NoInput, "", 0, <<>>, <<>>, FALSE, FALSE)
        /\ UNCHANGED <<outreaches, defaultInstantlyService, defaultSalesfinityService,
                       defaultLinkedInService, integrations, remoteCampaigns,
                       linkedinOutput, salesfinityCall, followUpRequests, campaigns,
                instantlyCalls>>

\* the automation container of a launched job produces output
LinkedInProgress ==
    /\ \E i \in DOMAIN outreaches : outreaches[i].externalIds.linkedinActivityId # None
    /\ \E out \in LiOutputs : out # linkedinOutput /\ linkedinOutput' = out
    /\ last' = Last("provider", NoInput, "", 0, <<>>, <<>>, FALSE, FALSE)
    /\ UNCHANGED <<outreaches, instantlyServices, salesfinityServices, linkedinServices,
                   defaultInstantlyService, defaultSalesfinityService,
                   defaultLinkedInService, integrations, remoteCampaigns,
                   salesfinityCall, followUpRequests, campaigns,
                instantlyCalls>>

Next ==
    \/ SendEmail
    \/ ScheduleCall
    \/ SendLinkedInConnection
    \/ SendLinkedInMessage
    \/ SyncOutreachStatus
    \/ InitUserServices
    \/ LinkedInProgress

Spec == Init /\ [][Next]_vars


\* ------------------------------------------------------------------ properties

InSeq(x, s) == \E i \in DOMAIN s : s[i] = x

SendOps == {"sendEmail", "scheduleCall", "sendLinkedInConnection", "sendLinkedInMessage"}
LinkedInOps == {"sendLinkedInConnection", "sendLinkedInMessage"}

\* C1: every Outreach persisted by sendEmail, scheduleCall, sendLinkedInConnection or
\* sendLinkedInMessage has status 'Scheduled' when the operation returns, whether or
\* not the add-lead and start-campaign steps succeeded.
C1_ScheduledAtReturn ==
    (last.op \in SendOps /\ last.id # 0) => outreaches[last.id].status = "Scheduled"

\* sendEmail created the remote campaign, failed to add the lead, and saved
C1_Witness ==
    /\ last.op = "sendEmail" /\ last.id # 0
    /\ InSeq(Step("createCampaign", TRUE), last.calls)
    /\ InSeq(Step("addLeadsToCampaign", FALSE), last.calls)
    /\ outreaches[last.id].status = "Scheduled"

\* C2: in sendEmail, when the lead and the campaign exist, the connectivity check
\* passes and the remote campaign is found or created, a failure of add-lead and/or
\* of start-campaign does not abort: exactly one new Outreach, of channel Instantly
\* and with the input subject, is persisted and returned.
C2_BestEffortSteps ==
    [][(/\ last'.op = "sendEmail"
        /\ InSeq(Step("Lead.findById", TRUE), last'.calls)
        /\ InSeq(Step("testConnection", TRUE), last'.calls)
        /\ InSeq(Step("Campaign.findById", TRUE), last'.calls)
        /\ InSeq(Step("getCampaigns", TRUE), last'.calls)
        /\ ~InSeq(Step("createCampaign", FALSE), last'.calls))
       => (/\ last'.error = ""
           /\ Len(outreaches') = Len(outreaches) + 1
           /\ SubSeq(outreaches', 1, Len(outreaches)) = outreaches
           /\ last'.id = Len(outreaches')
           /\ outreaches'[last'.id].channel = "Instantly"
           /\ outreaches'[last'.id].email.subject = last'.input.subject)]_vars

\* sendEmail found the remote campaign, failed both to add the lead and to start the
\* campaign, and returned the saved document carrying the second subject
C2_Witness ==
    /\ last.op = "sendEmail" /\ last.error = "" /\ last.id = Len(outreaches)
    /\ InSeq(Step("addLeadsToCampaign", FALSE), last.calls)
    /\ InSeq(Step("startCampaign", FALSE), last.calls)
    /\ last.input.subject = "Offer"
    /\ outreaches[last.id].email.subject = "Offer"

\* C3: syncOutreachStatus is idempotent: a sync that repeats the sync before it, with
\* no change at the provider in between, leaves every field of every stored Outreach
\* as the first one left it.
C3_SyncIdempotent ==
    [][(last'.op = "syncOutreachStatus" /\ last'.repeat) => outreaches' = outreaches]_vars

\* the second of two syncs of a LinkedIn document that the provider reports replied
C3_Witness ==
    /\ last.op = "syncOutreachStatus" /\ last.repeat /\ last.error = "" /\ last.id # 0
    /\ outreaches[last.id].channel = "LinkedIn"
    /\ outreaches[last.id].status = "Replied"
    /\ outreaches[last.id].response.received

\* the channel-specific external id of a document is absent
AbsentId(d) ==
    CASE d.channel = "Instantly" -> d.externalIds.instantlyId = None
      [] d.channel = "Salesfinity" -> d.externalIds.salesfinityId = None
      [] d.channel = "LinkedIn" -> d.externalIds.linkedinActivityId = None
      [] OTHER -> FALSE

\* C4: syncOutreachStatus on an existing Outreach whose channel-specific external id
\* is absent makes no provider call, does not save, raises no error and returns the
\* record with every field unchanged.
C4_SyncWithoutExternalId ==
    [][(/\ last'.op = "syncOutreachStatus"
        /\ last'.input.outreachId \in DOMAIN outreaches
        /\ AbsentId(outreaches[last'.input.outreachId]))
       => (/\ last'.error = ""
           /\ last'.id = last'.input.outreachId
           /\ last'.http = <<>>
           /\ last'.calls = <<Step("Outreach.findById", TRUE)>>
           /\ outreaches' = outreaches)]_vars

\* a sync of the document sendEmail saved, which carries no instantlyId
C4_Witness ==
    /\ last.op = "syncOutreachStatus" /\ last.error = "" /\ last.id = 2
    /\ outreaches[2].channel = "Instantly"
    /\ outreaches[2].externalIds.instantlyId = None
    /\ ~last.changed

\* the stored lead has a null or an empty linkedinUrl
NoProfile(leadId) == leadId \in LeadIds /\ Leads[leadId].linkedinUrl \in {NoText, <<>>}

\* C5 as stated: sendLinkedInConnection and sendLinkedInMessage on a lead whose
\* linkedinUrl is null or empty fail with the missing-profile error, launch no job
\* and create no Outreach.
C5_Original ==
    (last.op \in LinkedInOps /\ NoProfile(last.input.leadId))
        => (/\ last.error = "Lead does not have LinkedIn URL"
            /\ last.http = <<>>
            /\ last.id = 0 /\ ~last.changed)

\* C5: sendLinkedInConnection and sendLinkedInMessage on a lead whose linkedinUrl is
\* null or empty fail, launch no job and create no Outreach; the error is the
\* missing-profile error when a LinkedIn adapter is selected for the user, and the
\* not-configured error when none is.
C5_MissingProfile ==
    (last.op \in LinkedInOps /\ NoProfile(last.input.leadId))
        => (/\ last.error = IF Services.linkedin = <<>>
                            THEN "LinkedIn service not configured for this user"
                            ELSE "Lead does not have LinkedIn URL"
            /\ last.http = <<>>
            /\ last.id = 0 /\ ~last.changed)

\* sendLinkedInMessage on the lead whose linkedinUrl is the empty string
C5_Witness ==
    /\ last.op = "sendLinkedInMessage" /\ last.input.leadId = "L3"
    /\ Leads["L3"].linkedinUrl = <<>>
    /\ last.error = "Lead does not have LinkedIn URL"
    /\ last.id = 0

\* the request of sendEmail names a lead or a campaign that is not stored
Unresolved(input) == input.leadId \notin LeadIds \/ input.campaignId \notin CampaignIds

\* C6 as stated: sendEmail with a lead id or a campaign id that does not resolve fails
\* with a not-found error, persists no Outreach and creates, modifies or starts no
\* remote campaign.
C6_Original ==
    [][(last'.op = "sendEmail" /\ Unresolved(last'.input))
       => (/\ last'.error \in {"Lead not found", "Campaign not found"}
           /\ outreaches' = outreaches
           /\ remoteCampaigns' = remoteCampaigns)]_vars

\* C6: sendEmail with a lead id or a campaign id that does not resolve fails, persists
\* no Outreach and creates, modifies or starts no remote campaign; the error is the
\* not-configured error when no Instantly adapter is selected, else not-found for a
\* missing lead, else the connection error when the connectivity check fails, else
\* not-found for the missing campaign.
C6_UnresolvedIds ==
    [][(last'.op = "sendEmail" /\ Unresolved(last'.input))
       => (/\ last'.error =
                 IF Services.instantly = <<>> THEN "Instantly service not configured"
                 ELSE IF last'.input.leadId \notin LeadIds THEN "Lead not found"
                 ELSE IF ~InSeq(Step("testConnection", TRUE), last'.calls)
                      THEN "Failed to connect to Instantly API"
                 ELSE "Campaign not found"
           /\ outreaches' = outreaches
           /\ remoteCampaigns' = remoteCampaigns
           /\ \A i \in DOMAIN last'.http : last'.http[i].req = "GET /api-keys")]_vars

\* sendEmail for a stored lead and a campaign id that is not stored, after the
\* connectivity check passed
C6_Witness ==
    /\ last.op = "sendEmail"
    /\ last.input.leadId \in LeadIds /\ last.input.campaignId \notin CampaignIds
    /\ InSeq(Step("testConnection", TRUE), last.calls)
    /\ last.error = "Campaign not found"
    /\ last.id = 0


\* ------------------------------------------------------------------ the adapters' pure functions

\* how far below the limit the shorter long texts end
Margin == 12

PadLengths == {0, 1, ConnectionLimit - Margin, ConnectionLimit - 1, ConnectionLimit,
               ConnectionLimit + 1}
PlaceholderTexts ==
    {<<>>, PhFirstName, PhFirstName \o <<" ">> \o PhLastName, PhCompany \o PhPosition,
     PhFirstName \o PhLastName \o PhCompany \o PhPosition, PhFirstName \o PhFirstName}
\* the message texts the templates are applied to: a run of text, then placeholders
Messages == {Rep("x", n) \o ph : n \in PadLengths, ph \in PlaceholderTexts}

\* the outcome names the provider documents, one it does not, and none
OutcomeArgs == DOMAIN outcomeMap \cup {"callback", None}
\* the call records mapCallOutcome is applied to: <<>> is an undefined call
CallArgs ==
    {<<>>, <<SfCall(<<>>, "Completed", None)>>}
    \cup {<<SfCall(<<[external_name |-> o, name |-> None]>>, None, "t3")>> : o \in OutcomeArgs}

\* the record of an application: the function, its arguments, the error it threw
\* ("" if it returned) and what it returned
Applied(op, input, error, output) ==
    [op |-> op, input |-> input, error |-> error, output |-> output]

InitMap ==
    /\ outreaches = <<>>
    /\ instantlyServices = <<>>
    /\ salesfinityServices = <<>>
    /\ linkedinServices = <<>>
    /\ defaultInstantlyService = <<>>
    /\ defaultSalesfinityService = <<[adapter |-> "SalesfinityService"]>>
    /\ defaultLinkedInService = <<[adapter |-> "LinkedInService"]>>
    /\ integrations = Integration(FALSE)
    /\ remoteCampaigns = <<>>
    /\ linkedinOutput = <<>>
    /\ salesfinityCall = SfCall(<<>>, "Completed", None)
    /\ followUpRequests = <<>>
    /\ campaigns = <<>>
    /\ instantlyCalls = <<>>
    /\ last = Applied("none", None, "", None)

Fixed ==
    UNCHANGED <<outreaches, instantlyServices, salesfinityServices, linkedinServices,
                defaultInstantlyService, defaultSalesfinityService,
                defaultLinkedInService, integrations, remoteCampaigns, linkedinOutput,
                salesfinityCall, followUpRequests, campaigns,
                instantlyCalls>>

ApplyCreateConnectionTemplate ==
    /\ \E message \in Messages, leadId \in LeadIds :
          last' = Applied("createConnectionTemplate",
                          [message |-> message, leadId |-> leadId], "",
                          createConnectionTemplate(message, Leads[leadId]))
    /\ Fixed

\* sendLinkedInConnection as a function of its request: the document it builds
ApplySendLinkedInConnection ==
    /\ \E message \in Messages :
          LET r == sendLinkedInConnection(Services.linkedin, UserId, "L1",
                        [message |-> message, campaignId |-> None], [launch |-> "ok"])
          IN  last' = Applied("sendLinkedInConnection",
                              [message |-> message, leadId |-> "L1"], r.error, r.docs)
    /\ Fixed

ApplyMapCallOutcome ==
    /\ \E call \in CallArgs :
          last' = IF call = <<>>
                  THEN Applied("mapCallOutcome", call,
                               "Cannot read properties of undefined (reading 'disposition')",
                               None)
                  ELSE Applied("mapCallOutcome", call, "", mapCallOutcome(call[1]))
    /\ Fixed

ApplyMapCallOutcomeLegacy ==
    /\ \E o \in OutcomeArgs :
          last' = Applied("mapCallOutcomeLegacy", o, "", mapCallOutcomeLegacy(o))
    /\ Fixed

\* the operations SalesfinityService answers without a request to the provider
SimulatedOps == {"getContactsFromList", "addContactsToList", "scheduleCall"}

\* the results of the simulated operations of services/salesfinity; rand is what
\* Math.random() made of the number of contacts, arg the list id or the contact
SalesfinitySimulated(op, arg, rand) ==
    CASE op = "getContactsFromList" ->
            [success |-> TRUE, data |-> [i \in 1..rand |-> [firstName |-> "FirstName"]],
             listId |-> arg, listName |-> "Unknown List", simulation |-> TRUE]
      [] op = "addContactsToList" ->
            [success |-> TRUE, message |-> "Added contacts (simulated)", listId |-> arg,
             contacts |-> rand, simulation |-> TRUE]
      [] op = "scheduleCall" ->
            [id |-> "sim_call_now", status |-> "scheduled", scheduledAt |-> "now",
             contact |-> arg, simulation |-> TRUE]

\* the results of the same operations of the other SalesfinityService of the
\* repository (there the second one is uploadContactsToList)
SalesfinityVariantSimulated(op, arg, rand) ==
    CASE op = "getContactsFromList" ->
            [data |-> <<[firstName |-> "John"], [firstName |-> "Jane"]>>,
             pagination |-> [currentPage |-> 1, totalPages |-> 1, totalItems |-> 2,
                             perPage |-> 100]]
      [] op = "addContactsToList" ->
            [success |-> TRUE, message |-> "contacts uploaded successfully (simulated)",
             listId |-> arg]
      [] op = "scheduleCall" ->
            [id |-> "sim_call_now", status |-> "scheduled", scheduledAt |-> "now",
             contact |-> arg]

ApplySimulated ==
    /\ \E op \in SimulatedOps, arg \in {"list-1", "list-2"}, rand \in {3, 10},
          variant \in BOOLEAN :
          last' = Applied(op, [arg |-> arg, rand |-> rand, variant |-> variant], "",
                          IF variant THEN SalesfinityVariantSimulated(op, arg, rand)
                          ELSE SalesfinitySimulated(op, arg, rand))
    /\ Fixed

\* exports.scheduleCall, the handler of POST /campaign/:campaignId/lead/:leadId/call,
\* given what hasChannelAccess, the orchestrator's scheduleCall and
\* Lead.findByIdAndUpdate do: service is "created" (the Outreach was persisted and
\* returned) or "error" (it threw)
ScheduleCallRequest ==
    /\ \E access \in BOOLEAN, campaignId \in CampaignRefs, service \in {"created", "error"},
          update \in {"ok", "error"} :
          LET input == [access |-> access, campaignId |-> campaignId, service |-> service,
                        update |-> update]
              respond(status, message) ==
                  last' = Applied("POST call", input, message, [status |-> status])
          IN  IF ~access
              THEN respond(403, "You do not have access to the Salesfinity integration")
              ELSE IF Campaign_findById(campaignId) = <<>>
              THEN respond(404, "Campaign not found")
              ELSE IF service = "error" THEN respond(500, "Error scheduling call")
              ELSE IF update = "error" THEN respond(500, "Lead update failed")
              ELSE respond(500, "outreach is not defined")
    /\ Fixed

\* mapSalesfinityCallToOutreach applied to the call records the provider can return
ApplyMapSalesfinityCall ==
    /\ \E call \in CallArgs \ {<<>>} :
          last' = Applied("mapSalesfinityCallToOutreach", call, "",
                          mapSalesfinityCallToOutreach(call[1], "L1", "now"))
    /\ Fixed

NextMap ==
    \/ ApplyCreateConnectionTemplate
    \/ ApplySendLinkedInConnection
    \/ ApplyMapCallOutcome
    \/ ApplyMapCallOutcomeLegacy
    \/ ApplySimulated
    \/ ScheduleCallRequest
    \/ ApplyMapSalesfinityCall

SpecMap == InitMap /\ [][NextMap]_vars

\* C7 as stated: scheduleCall for a stored lead without a phone, with the adapter
\* the orchestrator loads, completes without error and persists one Outreach of type
\* Call, channel Salesfinity, status Scheduled, dialedNumber "" and outcome 'No Answer'.
C7_Original ==
    (/\ last.op = "scheduleCall"
     /\ last.input.leadId \in LeadIds
     /\ Leads[last.input.leadId].phone = None
     /\ Services.salesfinity # <<>>)
        => (/\ last.error = ""
            /\ last.id = Len(outreaches) /\ last.id # 0 /\ last.changed
            /\ outreaches[last.id].type = "Call"
            /\ outreaches[last.id].channel = "Salesfinity"
            /\ outreaches[last.id].status = "Scheduled"
            /\ outreaches[last.id].call.dialedNumber = ""
            /\ outreaches[last.id].call.outcome = "No Answer")

\* C8 as stated: for a Salesfinity Outreach with a salesfinityId whose call record at
\* the provider has disposition.external_name "interested", each of two syncs in a
\* row succeeds and leaves call.outcome = "Interested".
C8_Original ==
    (/\ last.op = "syncOutreachStatus"
     /\ last.input.outreachId \in DOMAIN outreaches
     /\ last.input.fetch = "ok"
     /\ outreaches[last.input.outreachId].channel = "Salesfinity"
     /\ outreaches[last.input.outreachId].externalIds.salesfinityId # None
     /\ salesfinityCall.disposition # <<>>
     /\ salesfinityCall.disposition[1].external_name = "interested"
     /\ Services.salesfinity # <<>>)
        => (/\ last.error = ""
            /\ outreaches[last.input.outreachId].call.outcome = "Interested")

\* C9 as stated: the call-outcome mapping of the adapter is total: each documented
\* outcome maps to its internal name, any other input, a missing one included, maps
\* to the default without raising, and the result is always in the call.outcome enum.
C9_Original ==
    last.op = "mapCallOutcome"
        => (/\ last.error = ""
            /\ last.output \in OutcomeEnum
            /\ \A o \in DOMAIN outcomeMap :
                  (/\ last.input # <<>>
                   /\ last.input[1].disposition # <<>>
                   /\ last.input[1].disposition[1].external_name = o)
                      => last.output = outcomeMap[o])

\* C10: for every message and every lead, the text createConnectionTemplate returns,
\* which sendLinkedInConnection stores in linkedin.message, has at most 300
\* characters after the placeholders are substituted.
C10_ConnectionLimit ==
    /\ last.op = "createConnectionTemplate" => Len(last.output) <= ConnectionLimit
    /\ (last.op = "sendLinkedInConnection" /\ last.output # <<>>)
          => (/\ Len(last.output[1].linkedin.message) <= ConnectionLimit
              /\ last.output[1].linkedin.message =
                    createConnectionTemplate(last.input.message, Leads[last.input.leadId]))

\* a message that is longer than the limit after substitution, returned cut
C10_Witness ==
    /\ last.op = "createConnectionTemplate"
    /\ Len(Personalize(last.input.message, Leads[last.input.leadId])) > ConnectionLimit
    /\ Len(last.output) = ConnectionLimit


\* ------------------------------------------------------------------ integrations and adapter selection

IntegrationChannels == {"instantly", "salesfinity", "linkedin"}

\* the credentials initUserServices and updateUserIntegrations look for, per channel
Credentials ==
    [instantly |-> {"apiKey"}, salesfinity |-> {"apiKey", "accountId"},
     linkedin |-> {"email"}]

\* enabled && <each credential>
Configured(user, ch) ==
    user[ch].enabled /\ \A k \in Credentials[ch] : user[ch][k]

\* the cache entry and the default adapter of a channel
UserService(ch) ==
    CASE ch = "instantly" -> instantlyServices
      [] ch = "salesfinity" -> salesfinityServices
      [] ch = "linkedin" -> linkedinServices

DefaultService(ch) ==
    CASE ch = "instantly" -> defaultInstantlyService
      [] ch = "salesfinity" -> defaultSalesfinityService
      [] ch = "linkedin" -> defaultLinkedInService

\* the key of user.integrations a channel name selects in hasChannelAccess
IntegrationOf ==
    [Instantly |-> "instantly", Salesfinity |-> "salesfinity", LinkedIn |-> "linkedin"]

\* an entitlement that rests on the default adapter alone
hasDefaultOnly(user, channel) ==
    IF channel \in DOMAIN IntegrationOf
    THEN DefaultService(IntegrationOf[channel]) # <<>>
    ELSE channel = "Personal Email"

\* hasChannelAccess(user, channel), user given by its integrations
hasChannelAccess(user, channel) ==
    IF channel \in DOMAIN IntegrationOf
    THEN user[IntegrationOf[channel]].enabled
         \/ DefaultService(IntegrationOf[channel]) # <<>>
    ELSE channel = "Personal Email"

\* validateConnection(): the provider answers "valid" or "invalid"
validateConnection(resp) == [valid |-> (resp = "valid")]

\* { ...user.integrations.x, ...req.body.integrations.x }
Merge(old, patch) == [k \in DOMAIN old |-> IF k \in DOMAIN patch THEN patch[k] ELSE old[k]]

\* req.body.integrations of the requests the model issues: per channel <<>> (absent)
\* or <<patch>>
NoPatch == [instantly |-> <<>>, salesfinity |-> <<>>, linkedin |-> <<>>]
Patches ==
    [instantly |-> {[enabled |-> TRUE], [enabled |-> FALSE], [apiKey |-> TRUE],
                    [enabled |-> TRUE, apiKey |-> TRUE]},
     salesfinity |-> {[enabled |-> TRUE], [enabled |-> FALSE], [apiKey |-> TRUE],
                      [enabled |-> TRUE, apiKey |-> TRUE],
                      [enabled |-> TRUE, apiKey |-> TRUE, accountId |-> TRUE]},
     linkedin |-> {[enabled |-> TRUE], [enabled |-> FALSE],
                   [enabled |-> TRUE, email |-> TRUE]}]
IntegrationBodies ==
    {NoPatch}
    \cup UNION {{[NoPatch EXCEPT ![ch] = <<q>>] : q \in Patches[ch]} :
                    ch \in IntegrationChannels}
    \cup {[NoPatch EXCEPT !.instantly = <<[enabled |-> TRUE, apiKey |-> TRUE]>>,
                          !.salesfinity = <<[enabled |-> TRUE, apiKey |-> TRUE,
                                             accountId |-> TRUE]>>]}


\* the order in which updateUserIntegrations goes through the channels
ChannelOrder == <<"instantly", "salesfinity", "linkedin">>

\* the part of updateUserIntegrations before initUserServices: the merged user
\* document, the channels whose connectivity check passed, and the channel whose
\* check failed (None if none did); answers gives the provider's answer per channel
RECURSIVE MergeAndValidate(_, _, _, _, _)
MergeAndValidate(user, body, answers, i, passed) ==
    IF i > Len(ChannelOrder)
    THEN [user |-> user, passed |-> passed, failed |-> None]
    ELSE
    LET ch == ChannelOrder[i]
        merged == IF body[ch] = <<>> THEN user
                  ELSE [user EXCEPT ![ch] = Merge(user[ch], body[ch][1])]
    IN  IF body[ch] # <<>> /\ Configured(merged, ch)
        THEN IF validateConnection(answers[ch]).valid
             THEN MergeAndValidate(merged, body, answers, i + 1, passed \cup {ch})
             ELSE [user |-> merged, passed |-> passed, failed |-> ch]
        ELSE MergeAndValidate(merged, body, answers, i + 1, passed)

\* the answers of the providers to the connectivity checks of one request
ValidationAnswers == [IntegrationChannels -> {"valid", "invalid"}]

UserRefs == {UserId, "u0"}

InitUser ==
    /\ outreaches = <<>>
    /\ instantlyServices = <<>>
    /\ salesfinityServices = <<>>
    /\ linkedinServices = <<>>
    /\ \E keys \in EnvKeys \cup {{"LINKEDIN_API_KEY"}} :
          /\ defaultInstantlyService =
                IF "INSTANTLY_API_KEY" \in keys THEN <<NewInstantlyService>> ELSE <<>>
          /\ defaultSalesfinityService =
                IF "SALESFINITY_API_KEY" \in keys
                THEN <<[adapter |-> "SalesfinityService"]>> ELSE <<>>
          /\ defaultLinkedInService =
                IF "LINKEDIN_API_KEY" \in keys
                THEN <<[adapter |-> "LinkedInService"]>> ELSE <<>>
    /\ integrations = Integration(FALSE)
    /\ remoteCampaigns = <<>>
    /\ linkedinOutput = <<>>
    /\ salesfinityCall = InterestedCall
    /\ followUpRequests = <<>>
    /\ campaigns = <<>>
    /\ instantlyCalls = <<>>
    /\ last = Applied("none", None, "", None)

\* exports.updateUserIntegrations: PATCH /users/:id/integrations
UpdateUserIntegrations ==
    \E id \in UserRefs, body \in IntegrationBodies, answers \in ValidationAnswers :
        /\ \A ch \in IntegrationChannels : body[ch] = <<>> => answers[ch] = "valid"
        /\ id # UserId => (body = NoPatch)
        /\ LET input == [id |-> id, body |-> body, answers |-> answers]
               v == MergeAndValidate(integrations, body, answers, 1, {})
               made == initUserServices(v.user)
           IN  IF id # UserId
               THEN /\ last' = Applied("updateUserIntegrations", input, "User not found",
                                       [status |-> 404, passed |-> {}])
                    /\ UNCHANGED <<integrations, instantlyServices, salesfinityServices,
                                   linkedinServices>>
               ELSE IF v.failed # None
               THEN /\ last' = Applied("updateUserIntegrations", input,
                                       "Invalid credentials",
                                       [status |-> 400, passed |-> v.passed])
                    /\ UNCHANGED <<integrations, instantlyServices, salesfinityServices,
                                   linkedinServices>>
               ELSE /\ last' = Applied("updateUserIntegrations", input, "",
                                       [status |-> 200, passed |-> v.passed])
                    /\ integrations' = v.user
                    /\ instantlyServices' =
                          IF made.instantly # <<>> THEN made.instantly ELSE instantlyServices
                    /\ salesfinityServices' =
                          IF made.salesfinity # <<>> THEN made.salesfinity
                          ELSE salesfinityServices
                    /\ linkedinServices' =
                          IF made.linkedin # <<>> THEN made.linkedin ELSE linkedinServices
        /\ UNCHANGED <<outreaches, defaultInstantlyService, defaultSalesfinityService,
                       defaultLinkedInService, remoteCampaigns, linkedinOutput,
                       salesfinityCall, followUpRequests, campaigns,
                instantlyCalls>>

\* getService(userId, channel) of the stored user, as the operations call it
GetService ==
    /\ \E ch \in IntegrationChannels :
          last' = Applied("getService", ch, "", getService(UserService(ch), DefaultService(ch)))
    /\ Fixed

AccessChannels == ChannelEnum \cup {"Fax"}

HasChannelAccess ==
    /\ \E channel \in AccessChannels :
          last' = Applied("hasChannelAccess", channel, "",
                          hasChannelAccess(integrations, channel))
    /\ Fixed

NextUser ==
    \/ UpdateUserIntegrations
    \/ GetService
    \/ HasChannelAccess

SpecUser == InitUser /\ [][NextUser]_vars


\* ------------------------------------------------------------------ properties of SpecUser

\* C11: adapter selection returns the user's adapter only if the user has the
\* channel enabled and configured at that moment, and otherwise the global default
\* adapter (nothing when there is none); in particular a cached adapter of a user
\* whose channel is now disabled is not returned
C11_Original ==
    last.op = "getService" =>
        IF Configured(integrations, last.input)
        THEN last.output = UserService(last.input) /\ last.output # <<>>
        ELSE last.output = DefaultService(last.input)


\* C12: hasChannelAccess(user, channel) is true exactly when the user has the
\* channel's integration enabled or a global default adapter exists for the channel;
\* it is true for 'Personal Email' and false for every other channel
C12_ChannelAccess ==
    last.op = "hasChannelAccess" =>
        (last.output <=>
            \/ /\ last.input = "Instantly"
               /\ (integrations.instantly.enabled \/ defaultInstantlyService # <<>>)
            \/ /\ last.input = "Salesfinity"
               /\ (integrations.salesfinity.enabled \/ defaultSalesfinityService # <<>>)
            \/ /\ last.input = "LinkedIn"
               /\ (integrations.linkedin.enabled \/ defaultLinkedInService # <<>>)
            \/ last.input = "Personal Email")

\* access that rests on the user's enabled integration alone
C12_Witness ==
    /\ last.op = "hasChannelAccess"
    /\ last.input = "Salesfinity"
    /\ integrations.salesfinity.enabled
    /\ defaultSalesfinityService = <<>>
    /\ last.output

\* the per-user adapter caches
UserCaches == <<instantlyServices, salesfinityServices, linkedinServices>>

\* C18: updateUserIntegrations stores an integration as enabled only after a
\* connectivity check of that channel passed in the same request, and a request
\* whose check fails changes neither the stored user nor the adapter caches
C18_Original ==
    [][last'.op = "updateUserIntegrations" =>
        IF last'.output.status = 200
        THEN \A ch \in IntegrationChannels :
                (last'.input.body[ch] # <<>> /\ integrations'[ch].enabled)
                    => ch \in last'.output.passed
        ELSE UNCHANGED <<integrations, UserCaches>>]_vars


\* ------------------------------------------------------------------ further properties of Spec

\* the provider's result for a stored LinkedIn outreach supplies a message
SuppliesMessage(outreach) ==
    \E i \in DOMAIN linkedinOutput :
        /\ linkedinOutput[i].internalId = outreach.lead
        /\ linkedinOutput[i].message # NoText

\* C13: a sync overlays the fetched record: the fields of the stored email, call and
\* linkedin sub-objects that the provider record does not supply (email.subject,
\* email.body, linkedin.message) and the top-level fields lead, campaign, notes,
\* externalIds, followUps and performedBy keep the values they had before the sync
C13_Original ==
    [][(last'.op = "syncOutreachStatus" /\ last'.error = "") =>
        \A i \in DOMAIN outreaches :
            LET before == outreaches[i]
                after == outreaches'[i]
            IN  /\ \A k \in {"lead", "campaign", "notes", "externalIds", "followUps",
                             "performedBy"} : after[k] = before[k]
                /\ after.email.subject = before.email.subject
                /\ after.email.body = before.email.body
                /\ ~SuppliesMessage(before) =>
                        after.linkedin.message = before.linkedin.message]_vars


\* the positions of a step in the record of an operation
StepsOf(name, calls) == {i \in DOMAIN calls : calls[i].step = name}

\* C14: whenever sendEmail succeeds and the remote campaign it used, found by name or
\* just created, was not already running, it attempted to start that campaign exactly
\* once, after the Outreach was saved; when the campaign was running it made no start call
C14_Original ==
    [][(last'.op = "sendEmail" /\ last'.error = "") =>
        LET calls == last'.calls
            created == StepsOf("createCampaign", calls) # {}
            m == FindByName(remoteCampaigns, Campaigns[last'.input.campaignId].name)
            running == ~created /\ m # 0 /\ remoteCampaigns[m].status = RunningStatus
        IN  IF running
            THEN StepsOf("startCampaign", calls) = {}
            ELSE /\ Cardinality(StepsOf("startCampaign", calls)) = 1
                 /\ \A i \in StepsOf("startCampaign", calls), j \in StepsOf("save", calls) :
                        j < i]_vars


\* ------------------------------------------------------------------ campaign lookup at the provider

\* n campaigns of other names at the provider
OtherCampaigns(n) == [i \in 1..n |-> [id |-> i, name |-> "Autumn", status |-> 0]]

\* the provider holds as many campaigns as one listing returns, or more, with the
\* campaign named as the local one first, last or absent
LookupRemotes ==
    {OtherCampaigns(CampaignsLimit),
     <<[id |-> 0, name |-> "Spring", status |-> 0]>> \o OtherCampaigns(CampaignsLimit),
     OtherCampaigns(CampaignsLimit) \o
        <<[id |-> CampaignsLimit + 1, name |-> "Spring", status |-> 0]>>}

InitLookup ==
    /\ outreaches = <<>>
    /\ instantlyServices = <<>>
    /\ salesfinityServices = <<>>
    /\ linkedinServices = <<>>
    /\ defaultInstantlyService = <<NewInstantlyService>>
    /\ defaultSalesfinityService = <<>>
    /\ defaultLinkedInService = <<>>
    /\ integrations = Integration(FALSE)
    /\ remoteCampaigns \in LookupRemotes
    /\ linkedinOutput = <<>>
    /\ salesfinityCall = InterestedCall
    /\ followUpRequests = <<>>
    /\ campaigns = <<>>
    /\ instantlyCalls = <<>>
    /\ last = Last("none", NoInput, "", 0, <<>>, <<>>, FALSE, FALSE)

SpecLookup == InitLookup /\ [][SendEmail]_vars

\* C15: sendEmail calls createCampaign if and only if the provider holds no campaign
\* whose name equals the local campaign's name at that moment, however many
\* campaigns the provider holds
C15_Original ==
    [][(last'.op = "sendEmail" /\ StepsOf("getCampaigns", last'.calls) # {}
            /\ last'.calls[Len(last'.calls)] # Step("getCampaigns", FALSE)) =>
        (StepsOf("createCampaign", last'.calls) # {}
            <=> FindByName(remoteCampaigns, Campaigns[last'.input.campaignId].name) = 0)]_vars


\* ------------------------------------------------------------------ follow-ups (controllers/outreach)

MaxFollowUp == 3

\* the _id of the document at an index of the collection, as the references hold it
ObjectId(i) == <<"o1", "o2", "o3", "o4">>[i]

\* req.body of createFollowUp: type, channel, and whether content is given
FollowUpBodies ==
    {[type |-> "Email", channel |-> "Instantly", content |-> TRUE],
     [type |-> "Email", channel |-> "Instantly", content |-> FALSE],
     [type |-> "Email", channel |-> "LinkedIn", content |-> TRUE],
     [type |-> "Call", channel |-> "Salesfinity", content |-> TRUE],
     [type |-> "LinkedIn", channel |-> "LinkedIn", content |-> TRUE],
     [type |-> "Fax", channel |-> "Other", content |-> TRUE]}

\* the connections that carry createFollowUp requests
Connections == {1, 2}

Idle == [pc |-> "idle", id |-> 0, body |-> <<>>, parentOutreach |-> <<>>, followUp |-> 0]

\* the document createFollowUp builds from the parent it read
FollowUpOutreach(parentOutreach, id, body) ==
    LET base == [lead |-> parentOutreach.lead, campaign |-> parentOutreach.campaign,
                 sequence |-> parentOutreach.sequence, type |-> body.type,
                 channel |-> body.channel, status |-> "Scheduled", scheduledAt |-> "now",
                 parentOutreach |-> ObjectId(id), performedBy |-> UserId,
                 followUpCount |-> parentOutreach.followUpCount + 1]
        with(k, v) == [x \in DOMAIN base \cup {k} |-> IF x = k THEN v ELSE base[x]]
    IN  NewOutreach(
            CASE body.type = "Email" ->
                    with("email", [subject |-> "Re", body |-> "body", fromName |-> "Rep",
                                    fromEmail |-> "rep@crm.test"])
              [] body.type = "Call" ->
                    with("call", [notes |-> "ring", dialedNumber |-> "+15550100"])
              [] body.type = "LinkedIn" ->
                    with("linkedin", [messageType |-> "Direct Message",
                                       message |-> <<"H", "i">>])
              [] OTHER -> base)

InitFollowUp ==
    /\ outreaches \in {<<d>> : d \in SeedOutreaches}
    /\ instantlyServices = <<>>
    /\ salesfinityServices = <<>>
    /\ linkedinServices = <<>>
    /\ defaultInstantlyService = <<>>
    /\ defaultSalesfinityService = <<>>
    /\ defaultLinkedInService = <<>>
    /\ integrations = Integration(FALSE)
    /\ remoteCampaigns = <<>>
    /\ linkedinOutput = <<>>
    /\ salesfinityCall = InterestedCall
    /\ followUpRequests = [c \in Connections |-> Idle]
    /\ campaigns = <<>>
    /\ instantlyCalls = <<>>
    /\ last = Applied("none", None, "", 0)

\* everything but the collection, the requests and the record of the last step
FollowUpFixed ==
    UNCHANGED <<instantlyServices, salesfinityServices, linkedinServices,
                defaultInstantlyService, defaultSalesfinityService,
                defaultLinkedInService, integrations, remoteCampaigns, linkedinOutput,
                salesfinityCall, campaigns, instantlyCalls>>

\* createFollowUp up to its first await: Outreach.findById(id)
FollowUpFind(c) ==
    /\ followUpRequests[c].pc = "idle"
    /\ \E id \in 1..MaxFollowUp, body \in FollowUpBodies :
          LET found == Outreach_findById(outreaches, id)
          IN  IF found = <<>>
              THEN /\ last' = Applied("createFollowUp", id,
                                      "Parent outreach activity not found", 404)
                   /\ UNCHANGED followUpRequests
              ELSE /\ followUpRequests' =
                          [followUpRequests EXCEPT ![c] =
                              [pc |-> "found", id |-> id, body |-> <<body>>,
                               parentOutreach |-> found, followUp |-> 0]]
                   /\ last' = Applied("Outreach.findById", 0, "", 0)
    /\ UNCHANGED outreaches
    /\ FollowUpFixed

\* createFollowUp from the parent it read to its second await: followUp.save()
FollowUpSave(c) ==
    LET r == followUpRequests[c]
        followUp == FollowUpOutreach(r.parentOutreach[1], r.id, r.body[1])
    IN  /\ r.pc = "found"
        /\ Len(outreaches) < MaxFollowUp
        /\ IF r.body[1].type \in {"Email", "Call", "LinkedIn"} /\ ~r.body[1].content
           THEN /\ last' = Applied("createFollowUp", r.id,
                                   "Cannot read properties of undefined", 500)
                /\ followUpRequests' = [followUpRequests EXCEPT ![c] = Idle]
                /\ UNCHANGED outreaches
           ELSE IF ~Validates(followUp)
           THEN /\ last' = Applied("createFollowUp", r.id, "Outreach validation failed", 500)
                /\ followUpRequests' = [followUpRequests EXCEPT ![c] = Idle]
                /\ UNCHANGED outreaches
           ELSE /\ outreaches' = Append(outreaches, followUp)
                /\ followUpRequests' =
                      [followUpRequests EXCEPT ![c].pc = "saved",
                                               ![c].followUp = Len(outreaches) + 1]
                /\ last' = Applied("followUp.save", 0, "", 0)
        /\ FollowUpFixed

\* createFollowUp from the saved follow-up to its response: followUps.push and
\* parentOutreach.save(), which the database carries out or fails
FollowUpLink(c) ==
    LET r == followUpRequests[c]
    IN  /\ r.pc = "saved"
        /\ \E save \in {"ok", "error"} :
              IF save = "ok"
              THEN /\ outreaches' =
                          [outreaches EXCEPT ![r.id].followUps =
                              Append(@, ObjectId(r.followUp))]
                   /\ last' = Applied("createFollowUp", r.id, "", 201)
              ELSE /\ UNCHANGED outreaches
                   /\ last' = Applied("createFollowUp", r.id, "save failed", 500)
        /\ followUpRequests' = [followUpRequests EXCEPT ![c] = Idle]
        /\ FollowUpFixed

NextFollowUp ==
    \E c \in Connections :
        \/ FollowUpFind(c)
        \/ FollowUpSave(c)
        \/ FollowUpLink(c)

SpecFollowUp == InitFollowUp /\ [][NextFollowUp]_vars

\* no createFollowUp request is in flight
Settled == \A c \in Connections : followUpRequests[c].pc = "idle"

\* C16: after any sequence of createFollowUp operations, every Outreach c whose
\* parentOutreach is p has followUpCount = p.followUpCount + 1 and p's lead, and is
\* contained in p.followUps
C16_Original ==
    Settled =>
        \A c \in DOMAIN outreaches, p \in DOMAIN outreaches :
            outreaches[c].parentOutreach = ObjectId(p) =>
                /\ outreaches[c].followUpCount = outreaches[p].followUpCount + 1
                /\ outreaches[c].lead = outreaches[p].lead
                /\ InSeq(ObjectId(c), outreaches[p].followUps)


\* the payload sub-object of a type, and the channels that go with the type
PayloadOf == [Email |-> "email", Call |-> "call", LinkedIn |-> "linkedin"]
ChannelsOf ==
    [Email |-> {"Instantly", "Personal Email"}, Call |-> {"Salesfinity"},
     LinkedIn |-> {"LinkedIn"}]

\* a sub-object of a document holds something the schema's defaults do not
Populated(doc, k) == doc[k] # OutreachDefaults[k]

\* C20: every persisted Outreach has exactly one of the payload sub-objects email,
\* call and linkedin populated, the one that matches both its type and its channel
C20_Original ==
    \A i \in DOMAIN outreaches :
        LET doc == outreaches[i]
        IN  /\ doc.type \in DOMAIN PayloadOf
            /\ doc.channel \in ChannelsOf[doc.type]
            /\ \A k \in {"email", "call", "linkedin"} :
                    Populated(doc, k) <=> k = PayloadOf[doc.type]


\* ------------------------------------------------------------------ campaigns (controllers/campaigns)

MaxCampaign == 1

\* the arrays of ids a request body can carry: absent (<<>> of none), or up to two
\* ids of ids, the same id twice included
IdLists(ids) == {<<>>} \cup {<<a>> : a \in ids} \cup {<<a, b>> : a, b \in ids}

\* MongooseArray.addToSet(...values): each value is pushed unless the array holds it
RECURSIVE addToSet(_, _)
addToSet(array, values) ==
    IF values = <<>> THEN array
    ELSE addToSet(IF InSeq(values[1], array) THEN array ELSE Append(array, values[1]),
                  Tail(values))

\* Array.prototype.filter(id => !ids.includes(id))
Without(array, ids) == SelectSeq(array, LAMBDA x : ~InSeq(x, ids))

InitCampaign ==
    /\ outreaches = <<>>
    /\ instantlyServices = <<>>
    /\ salesfinityServices = <<>>
    /\ linkedinServices = <<>>
    /\ defaultInstantlyService = <<>>
    /\ defaultSalesfinityService = <<>>
    /\ defaultLinkedInService = <<>>
    /\ integrations = Integration(FALSE)
    /\ remoteCampaigns = <<>>
    /\ linkedinOutput = <<>>
    /\ salesfinityCall = InterestedCall
    /\ followUpRequests = <<>>
    /\ campaigns = <<>>
    /\ instantlyCalls = <<>>
    /\ last = Applied("none", None, "", 0)

\* everything but the Campaign collection and the record of the last operation
CampaignFixed ==
    UNCHANGED <<outreaches, instantlyServices, salesfinityServices, linkedinServices,
                defaultInstantlyService, defaultSalesfinityService,
                defaultLinkedInService, integrations, remoteCampaigns, linkedinOutput,
                salesfinityCall, followUpRequests, instantlyCalls>>

\* exports.createCampaign: Campaign.create(req.body), team defaulting to the creator
CreateCampaign ==
    /\ Len(campaigns) < MaxCampaign
    /\ \E leads \in IdLists({"L1", "L2"}), team \in IdLists({UserId, "u2"}) :
          /\ campaigns' = Append(campaigns,
                [leads |-> leads, team |-> IF team = <<>> THEN <<UserId>> ELSE team,
                 totalLeads |-> 0])
          /\ last' = Applied("createCampaign", [leads |-> leads, team |-> team], "", 201)
    /\ CampaignFixed

\* exports.updateCampaign: Campaign.findByIdAndUpdate(id, req.body); the body sets
\* leads or team
UpdateCampaign ==
    /\ \E id \in 1..MaxCampaign, path \in {"leads", "team"}, ids \in IdLists({"L1", UserId}) :
          IF id \notin DOMAIN campaigns
          THEN /\ last' = Applied("updateCampaign", id, "Campaign not found", 404)
               /\ UNCHANGED campaigns
          ELSE /\ campaigns' = [campaigns EXCEPT ![id][path] = ids]
               /\ last' = Applied("updateCampaign", id, "", 200)
    /\ CampaignFixed

\* exports.addLeadsToCampaign
AddLeadsToCampaign ==
    /\ \E id \in 1..MaxCampaign, leads \in IdLists({"L1", "L2", "L0"}) :
          IF leads = <<>>
          THEN /\ last' = Applied("addLeadsToCampaign", id,
                                  "Please provide an array of lead IDs", 400)
               /\ UNCHANGED campaigns
          ELSE IF id \notin DOMAIN campaigns
          THEN /\ last' = Applied("addLeadsToCampaign", id, "Campaign not found", 404)
               /\ UNCHANGED campaigns
          ELSE IF Cardinality({l \in LeadIds : InSeq(l, leads)}) # Len(leads)
          THEN /\ last' = Applied("addLeadsToCampaign", id, "Some lead IDs are invalid", 400)
               /\ UNCHANGED campaigns
          ELSE LET added == addToSet(campaigns[id].leads, leads)
               IN  /\ campaigns' = [campaigns EXCEPT ![id].leads = added,
                                                     ![id].totalLeads = Len(added)]
                   /\ last' = Applied("addLeadsToCampaign", id, "", 200)
    /\ CampaignFixed

\* exports.removeLeadsFromCampaign
RemoveLeadsFromCampaign ==
    /\ \E id \in 1..MaxCampaign, leads \in IdLists({"L1", "L2"}) :
          IF leads = <<>>
          THEN /\ last' = Applied("removeLeadsFromCampaign", id,
                                  "Please provide an array of lead IDs", 400)
               /\ UNCHANGED campaigns
          ELSE IF id \notin DOMAIN campaigns
          THEN /\ last' = Applied("removeLeadsFromCampaign", id, "Campaign not found", 404)
               /\ UNCHANGED campaigns
          ELSE LET kept == Without(campaigns[id].leads, leads)
               IN  /\ campaigns' = [campaigns EXCEPT ![id].leads = kept,
                                                     ![id].totalLeads = Len(kept)]
                   /\ last' = Applied("removeLeadsFromCampaign", id, "", 200)
    /\ CampaignFixed

\* exports.addTeamMembersToCampaign
AddTeamMembersToCampaign ==
    /\ \E id \in 1..MaxCampaign, members \in IdLists({UserId, "u2"}) :
          IF members = <<>>
          THEN /\ last' = Applied("addTeamMembersToCampaign", id,
                                  "Please provide an array of user IDs", 400)
               /\ UNCHANGED campaigns
          ELSE IF id \notin DOMAIN campaigns
          THEN /\ last' = Applied("addTeamMembersToCampaign", id, "Campaign not found", 404)
               /\ UNCHANGED campaigns
          ELSE /\ campaigns' = [campaigns EXCEPT ![id].team = addToSet(@, members)]
               /\ last' = Applied("addTeamMembersToCampaign", id, "", 200)
    /\ CampaignFixed

\* exports.removeTeamMembersFromCampaign
RemoveTeamMembersFromCampaign ==
    /\ \E id \in 1..MaxCampaign, members \in IdLists({UserId, "u2"}) :
          IF members = <<>>
          THEN /\ last' = Applied("removeTeamMembersFromCampaign", id,
                                  "Please provide an array of user IDs", 400)
               /\ UNCHANGED campaigns
          ELSE IF id \notin DOMAIN campaigns
          THEN /\ last' = Applied("removeTeamMembersFromCampaign", id,
                                  "Campaign not found", 404)
               /\ UNCHANGED campaigns
          ELSE /\ campaigns' = [campaigns EXCEPT ![id].team = Without(@, members)]
               /\ last' = Applied("removeTeamMembersFromCampaign", id, "", 200)
    /\ CampaignFixed

NextCampaign ==
    \/ CreateCampaign
    \/ UpdateCampaign
    \/ AddLeadsToCampaign
    \/ RemoveLeadsFromCampaign
    \/ AddTeamMembersToCampaign
    \/ RemoveTeamMembersFromCampaign

SpecCampaign == InitCampaign /\ [][NextCampaign]_vars

\* a sequence holds no element twice
NoDuplicates(s) == \A i, j \in DOMAIN s : s[i] = s[j] => i = j

\* C17: after any sequence of campaign operations, a campaign's leads list and team
\* list contain no duplicate ids
C17_Original ==
    \A id \in DOMAIN campaigns :
        NoDuplicates(campaigns[id].leads) /\ NoDuplicates(campaigns[id].team)


\* C19: every result of a simulated call-provider operation (contacts of a list, add
\* contacts to a list, schedule a call) carries an explicit simulation marker
C19_Original ==
    last.op \in SimulatedOps =>
        ("simulation" \in DOMAIN last.output /\ last.output.simulation)


\* ------------------------------------------------------------------ reconciliation and responses

\* C21: an email Outreach created by sendEmail can be reconciled: when the provider
\* reports a status of the lead, a syncOutreachStatus of that Outreach whose status
\* request is answered sets the Outreach's status to the corresponding internal value
C21_Original ==
    [][(/\ last'.op = "syncOutreachStatus"
        /\ last'.input.fetch = "ok"
        /\ last'.input.outreachId \in 2..Len(outreaches)
        /\ outreaches[last'.input.outreachId].channel = "Instantly")
       => (/\ last'.error = ""
           /\ outreaches'[last'.input.outreachId].status =
                 mapInstantlyStatusToOutreach(InstantlyLead).status)]_vars


\* C22: when the orchestrator's scheduleCall has persisted the Outreach, the handler
\* of POST /campaign/:campaignId/lead/:leadId/call responds with a success status; it
\* responds with an error only if no Outreach was created
C22_Original ==
    (last.op = "POST call" /\ last.input.access /\ last.input.campaignId \in CampaignIds) =>
        (last.output.status >= 400 <=> last.input.service # "created")


\* the place of each step of sendEmail in its fixed order
StepRank ==
    [s \in {"Lead.findById", "testConnection", "Campaign.findById", "getCampaigns",
            "createCampaign", "addLeadsToCampaign", "save", "startCampaign"} |->
        CASE s = "Lead.findById" -> 1
          [] s = "testConnection" -> 2
          [] s = "Campaign.findById" -> 3
          [] s = "getCampaigns" -> 4
          [] s = "createCampaign" -> 5
          [] s = "addLeadsToCampaign" -> 6
          [] s = "save" -> 7
          [] s = "startCampaign" -> 8]

\* C23: within one sendEmail the steps occur in the fixed order lead lookup,
\* connectivity check, campaign lookup-or-create, remote lead-add, local save, remote
\* start, none skipped but the creation of a campaign that was found; the save
\* precedes any start call, and a start, failed or not, leaves the Outreach persisted
C23_StepOrder ==
    last.op = "sendEmail" =>
        LET calls == last.calls
        IN  /\ \A i \in DOMAIN calls : calls[i].step \in DOMAIN StepRank
            /\ \A i, j \in DOMAIN calls :
                    i < j => StepRank[calls[i].step] < StepRank[calls[j].step]
            /\ \A i \in DOMAIN calls :
                    \A r \in (1..(StepRank[calls[i].step] - 1)) \ {5} :
                        \E j \in 1..(i - 1) : StepRank[calls[j].step] = r
            /\ StepsOf("startCampaign", calls) # {} =>
                    (/\ InSeq(Step("save", TRUE), calls)
                     /\ last.error = ""
                     /\ last.id = Len(outreaches))

\* sendEmail ran every step, and its start call failed after the save
C23_Witness ==
    /\ last.op = "sendEmail"
    /\ Len(last.calls) = 7
    /\ InSeq(Step("addLeadsToCampaign", TRUE), last.calls)
    /\ last.calls[6] = Step("save", TRUE)
    /\ last.calls[7] = Step("startCampaign", FALSE)
    /\ outreaches[last.id].channel = "Instantly"


\* C24: the status of a provider record that a sync applies is a member of the
\* internal status enum, whatever status or disposition the provider reports
C24_Original ==
    last.op = "mapSalesfinityCallToOutreach" => last.output.status \in StatusEnum


\* C25: replacing the cached adapter of a user by another one built from the same
\* credentials never changes the outcome of a later adapter operation: what
\* addLeadsToCampaign returns and requests is the same on the old and the new instance
C25_Original ==
    [][(last'.op = "initUserServices" /\ instantlyServices # <<>>
            /\ instantlyServices' # <<>>) =>
        \A resp \in {"ok", "404", "error"} :
            LET old == addLeadsToCampaign(instantlyServices[1], <<"ann@crm.test">>, resp, resp)
                new == addLeadsToCampaign(instantlyServices'[1], <<"ann@crm.test">>, resp, resp)
            IN  old.ok = new.ok /\ old.http = new.http]_vars


\* C26: whenever hasChannelAccess(user, channel) is true for a provider channel, then
\* after initUserServices(user) adapter selection for the user and the channel yields
\* an adapter (in SpecUser the caches are always those initUserServices left for the
\* stored user)
C26_Original ==
    (last.op = "hasChannelAccess" /\ last.input \in DOMAIN IntegrationOf /\ last.output) =>
        getService(UserService(IntegrationOf[last.input]),
                   DefaultService(IntegrationOf[last.input])) # <<>>


\* C27: a sendLinkedInConnection or sendLinkedInMessage that persisted an Outreach
\* launched the automation job with a profile list that contains the target lead: its
\* internal id, and so its profile URL, is in the list of the launch request
C27_Original ==
    (last.op \in LinkedInOps /\ last.id # 0) =>
        \E i \in DOMAIN last.http :
            /\ last.http[i].req = "POST /agent/launch"
            /\ InSeq(last.input.leadId, last.http[i].leads)


\* ------------------------------------------------------------------ one InstantlyService, call by call

\* Every method of the class is an async function: it runs to its first await, where
\* its request is in flight, and resumes when the provider answers. Calls made on two
\* connections of the server share the one instance and interleave at the awaits.

MaxLeads == 2

\* the lead lists a caller passes to addLeadsToCampaign
LeadBatches == {SubSeq(<<"L1", "L2">>, 1, n) : n \in 0..MaxLeads}

\* the provider's answers: 2xx, 404, any other failure
Answers == {"ok", "404", "error"}

NoCall == [pc |-> "idle", leads |-> <<>>, http |-> <<>>]

Instance == defaultInstantlyService[1]

NotInTier == "Campaign endpoints are not available in your API tier"
NoLeadsInTier == "Adding leads is not available in your API tier"

InitAdapter ==
    /\ outreaches = <<>>
    /\ instantlyServices = <<>>
    /\ salesfinityServices = <<>>
    /\ linkedinServices = <<>>
    /\ defaultInstantlyService = <<NewInstantlyService>>
    /\ defaultSalesfinityService = <<>>
    /\ defaultLinkedInService = <<>>
    /\ integrations = Integration(FALSE)
    /\ remoteCampaigns = <<>>
    /\ linkedinOutput = <<>>
    /\ salesfinityCall = SfCall(<<>>, "Completed", None)
    /\ followUpRequests = <<>>
    /\ campaigns = <<>>
    /\ instantlyCalls = [c \in Connections |-> NoCall]
    /\ last = Applied("constructor", [connection |-> 0, leads |-> <<>>], "",
                      [http |-> <<>>, val |-> None])

AdapterFixed ==
    UNCHANGED <<outreaches, instantlyServices, salesfinityServices, linkedinServices,
                defaultSalesfinityService, defaultLinkedInService, integrations,
                remoteCampaigns, linkedinOutput, salesfinityCall, followUpRequests,
                campaigns>>

\* the method on connection c is suspended at pc with its request issued
Awaits(c, pc, leads, http) ==
    /\ instantlyCalls' = [instantlyCalls EXCEPT ![c] = [pc |-> pc, leads |-> leads,
                                                         http |-> http]]
    /\ UNCHANGED last

\* the method on connection c returns val, or throws error
Returns(c, op, error, val, http) ==
    /\ instantlyCalls' = [instantlyCalls EXCEPT ![c] = NoCall]
    /\ last' = Applied(op, [connection |-> c, leads |-> instantlyCalls[c].leads], error,
                       [http |-> http, val |-> val])

\* getCampaign(campaignId) up to its await
InstantlyGetCampaign(c) ==
    /\ instantlyCalls[c].pc = "idle"
    /\ Awaits(c, "getCampaign", <<>>, <<Req("GET /campaigns/{id}")>>)
    /\ UNCHANGED defaultInstantlyService
    /\ AdapterFixed

\* getCampaign from the provider's answer on
InstantlyGetCampaignDone(c) ==
    /\ instantlyCalls[c].pc = "getCampaign"
    /\ \E resp \in Answers :
          /\ defaultInstantlyService' = <<[Instance EXCEPT !.campaignDetails = (resp = "ok")]>>
          /\ Returns(c, "getCampaign", IF resp = "ok" THEN "" ELSE "Failed to fetch campaign",
                     None, instantlyCalls[c].http)
    /\ AdapterFixed

\* addLeadsToCampaign(campaignId, leads) up to its first await
InstantlyAddLeads(c) ==
    /\ instantlyCalls[c].pc = "idle"
    /\ \E leads \in LeadBatches :
          LET post(list) == ReqLeads("POST /campaigns/{id}/leads", list)
              thrown(message) ==
                  /\ instantlyCalls' = instantlyCalls
                  /\ last' = Applied("addLeadsToCampaign", [connection |-> c, leads |-> leads],
                                     message, [http |-> <<>>, val |-> None])
          IN  IF ~Instance.campaignDetails THEN thrown(NotInTier)
              ELSE IF Instance.leads = "null"
              THEN Awaits(c, "addLeads test", leads,
                          <<post(SubSeq(leads, 1, IF Len(leads) < 1 THEN Len(leads) ELSE 1))>>)
              ELSE IF Instance.leads = "false" THEN thrown(NoLeadsInTier)
              ELSE Awaits(c, "addLeads", leads, <<post(leads)>>)
    /\ UNCHANGED defaultInstantlyService
    /\ AdapterFixed

\* addLeadsToCampaign from the answer to its one-lead test request on
InstantlyAddLeadsTested(c) ==
    /\ instantlyCalls[c].pc = "addLeads test"
    /\ \E resp \in Answers :
          LET call == instantlyCalls[c]
          IN  IF resp = "ok"
              THEN /\ defaultInstantlyService' = <<[Instance EXCEPT !.leads = "true"]>>
                   /\ IF Len(call.leads) > 1
                      THEN Awaits(c, "addLeads full", call.leads,
                                  Append(call.http,
                                         ReqLeads("POST /campaigns/{id}/leads", call.leads)))
                      ELSE Returns(c, "addLeadsToCampaign", "", None, call.http)
              ELSE /\ defaultInstantlyService' =
                          IF resp = "404" THEN <<[Instance EXCEPT !.leads = "false"]>>
                          ELSE defaultInstantlyService
                   /\ Returns(c, "addLeadsToCampaign",
                              IF resp = "404" THEN NoLeadsInTier ELSE "Failed to add leads",
                              None, call.http)
    /\ AdapterFixed

\* addLeadsToCampaign from the answer to its request of all the leads on; the request
\* that follows the test is inside the try whose catch handles the 404
InstantlyAddLeadsDone(c) ==
    /\ instantlyCalls[c].pc \in {"addLeads full", "addLeads"}
    /\ \E resp \in Answers :
          /\ defaultInstantlyService' =
                IF instantlyCalls[c].pc = "addLeads full" /\ resp = "404"
                THEN <<[Instance EXCEPT !.leads = "false"]>>
                ELSE defaultInstantlyService
          /\ Returns(c, "addLeadsToCampaign",
                     CASE resp = "ok" -> ""
                       [] resp = "404" /\ instantlyCalls[c].pc = "addLeads full" -> NoLeadsInTier
                       [] OTHER -> "Failed to add leads",
                     None, instantlyCalls[c].http)
    /\ AdapterFixed

\* getLeads(campaignId, limit) up to its await
InstantlyGetLeads(c) ==
    /\ instantlyCalls[c].pc = "idle"
    /\ IF Instance.leads = "false"
       THEN /\ instantlyCalls' = instantlyCalls
            /\ last' = Applied("getLeads", [connection |-> c, leads |-> <<>>], "",
                               [http |-> <<>>, val |-> <<>>])
       ELSE Awaits(c, "getLeads", <<>>, <<Req("GET /campaigns/{id}/leads")>>)
    /\ UNCHANGED defaultInstantlyService
    /\ AdapterFixed

\* getLeads from the provider's answer on; the answer "ok" carries the items
InstantlyGetLeadsDone(c) ==
    /\ instantlyCalls[c].pc = "getLeads"
    /\ \E resp \in Answers, items \in {<<>>, <<"L1">>} :
          /\ resp # "ok" => items = <<>>
          /\ defaultInstantlyService' =
                CASE resp = "ok"  -> <<[Instance EXCEPT !.leads = "true"]>>
                  [] resp = "404" -> <<[Instance EXCEPT !.leads = "false"]>>
                  [] OTHER        -> defaultInstantlyService
          /\ Returns(c, "getLeads", IF resp = "error" THEN "Failed to fetch leads" ELSE "",
                     IF resp = "error" THEN None ELSE items, instantlyCalls[c].http)
    /\ AdapterFixed

\* startCampaign(campaignId) up to its await
InstantlyStartCampaign(c) ==
    /\ instantlyCalls[c].pc = "idle"
    /\ IF ~Instance.campaignDetails
       THEN /\ instantlyCalls' = instantlyCalls
            /\ last' = Applied("startCampaign", [connection |-> c, leads |-> <<>>],
                               NotInTier, [http |-> <<>>, val |-> None])
       ELSE Awaits(c, "startCampaign", <<>>, <<Req("POST /campaigns/{id}/start")>>)
    /\ UNCHANGED defaultInstantlyService
    /\ AdapterFixed

\* pauseCampaign(campaignId) up to its await
InstantlyPauseCampaign(c) ==
    /\ instantlyCalls[c].pc = "idle"
    /\ IF ~Instance.campaignDetails
       THEN /\ instantlyCalls' = instantlyCalls
            /\ last' = Applied("pauseCampaign", [connection |-> c, leads |-> <<>>],
                               NotInTier, [http |-> <<>>, val |-> None])
       ELSE Awaits(c, "pauseCampaign", <<>>, <<Req("POST /campaigns/{id}/pause")>>)
    /\ UNCHANGED defaultInstantlyService
    /\ AdapterFixed

\* startCampaign and pauseCampaign from the provider's answer on
InstantlyCommandDone(c) ==
    /\ instantlyCalls[c].pc \in {"startCampaign", "pauseCampaign"}
    /\ \E resp \in Answers :
          Returns(c, instantlyCalls[c].pc,
                  IF resp = "ok" THEN ""
                  ELSE IF instantlyCalls[c].pc = "startCampaign"
                       THEN "Failed to start campaign" ELSE "Failed to pause campaign",
                  None, instantlyCalls[c].http)
    /\ UNCHANGED defaultInstantlyService
    /\ AdapterFixed

NextAdapter ==
    \E c \in Connections :
        \/ InstantlyGetCampaign(c)
        \/ InstantlyGetCampaignDone(c)
        \/ InstantlyAddLeads(c)
        \/ InstantlyAddLeadsTested(c)
        \/ InstantlyAddLeadsDone(c)
        \/ InstantlyGetLeads(c)
        \/ InstantlyGetLeadsDone(c)
        \/ InstantlyStartCampaign(c)
        \/ InstantlyPauseCampaign(c)
        \/ InstantlyCommandDone(c)

SpecAdapter == InitAdapter /\ [][NextAdapter]_vars


\* the requests among http that submit the lead
Submissions(lead, http) == {i \in DOMAIN http : InSeq(lead, http[i].leads)}

\* C28: one call of addLeadsToCampaign submits each lead of its input to the provider
\* at most once, whatever the size of the input and the value of the leads flag
C28_Original ==
    last.op = "addLeadsToCampaign" =>
        \A i \in DOMAIN last.input.leads :
            Cardinality(Submissions(last.input.leads[i], last.output.http)) <= 1

\* C29: once availableEndpoints.leads is false on an instance it stays false, and a
\* call of addLeadsToCampaign or getLeads made from then on returns at once, having
\* issued no request: addLeadsToCampaign throws, getLeads returns an empty list
C29_Original ==
    [][Instance.leads = "false" =>
          /\ Instance'.leads = "false"
          /\ \A c \in Connections :
                instantlyCalls[c].pc = "idle" =>
                    /\ instantlyCalls'[c].pc \notin {"addLeads test", "addLeads", "getLeads"}
                    /\ (last' # last /\ last'.input.connection = c
                          /\ last'.op \in {"addLeadsToCampaign", "getLeads"}) =>
                            /\ last'.output.http = <<>>
                            /\ last'.op = "addLeadsToCampaign" => last'.error # ""
                            /\ last'.op = "getLeads" => last'.output.val = <<>>]_vars

\* connection c issues a request of startCampaign, pauseCampaign or addLeadsToCampaign
\* in the step
Issues(c) ==
    /\ instantlyCalls'[c].pc \in {"startCampaign", "pauseCampaign", "addLeads test",
                                  "addLeads full", "addLeads"}
    /\ Len(instantlyCalls'[c].http) > Len(instantlyCalls[c].http)

\* C30: startCampaign, pauseCampaign and addLeadsToCampaign issue a request only while
\* availableEndpoints.campaignDetails is true; the flag is false after every failed
\* getCampaign and turns from false to true only when a getCampaign succeeds
C30_Original ==
    [][/\ \A c \in Connections : Issues(c) => Instance.campaignDetails
       /\ (last'.op = "getCampaign" /\ last'.error # "" /\ last' # last)
              => ~Instance'.campaignDetails
       /\ (~Instance.campaignDetails /\ Instance'.campaignDetails)
              => (last'.op = "getCampaign" /\ last'.error = "")]_vars


====
